---- MODULE Spec2Model ----
(***************************************************************************)
(* A model of the documentation ingestion pipeline of MCPDOC:              *)
(*   - get_local_path_from_url, the URL-to-local-path mapper               *)
(*     (doc_agent_server.py);                                              *)
(*   - the crawl loops of scrape_documentation_site (doc_agent_server.py)  *)
(*     and of complete_docs_scraper.py;                                    *)
(*   - the ingestion operations setup_documentation_source,                *)
(*     scrape_and_index_documentation and index_preformatted_markdown,     *)
(*     step by step, with the files they write.                            *)
(* Strings that the code takes apart (URL paths, file paths) are sequences *)
(* of one-character strings, so that split, lstrip, startswith, dirname    *)
(* and normpath are computed as the code computes them.                    *)
(***************************************************************************)
EXTENDS Naturals, Integers, Sequences, FiniteSets, TLC

VARIABLES
    \* PathMapper
    pm_in,      \* the arguments of a call of get_local_path_from_url
    pm_out,     \* <<"pending">>, or <<"ret", result>>
    \* crawl loop (scrape_documentation_site, complete_docs_scraper.main)
    start_url,
    subdomain_to_keep,
    max_workers,
    max_urls,                   \* the --max-urls cap (complete_docs_scraper only)
    master_visited_urls,
    master_to_visit_urls_q,
    future_to_url_map,          \* submitted url -> "running", or the result
    all_scraped_results,        \* the urls whose scrape returned a result
    urls_processed_count,
    successful_scrapes,
    failed_scrapes,
    cpc,                        \* where the coordinator is: submit, collect, done
    submitted,                  \* history: how often each url was given to executor.submit
    \* ingestion (setup_documentation_source, scrape_and_index_documentation,
    \* index_preformatted_markdown)
    op,             \* the operation the server is asked for in this behaviour
    remote,         \* what the documentation site serves: llms.txt and llms-full.txt
    disk,           \* the project cache directories under BASE_CACHE_DIR
    INDEXED_DOCS,   \* the sources registered in memory
    state_file,     \* the sources listed in .indexed_docs_state.json
    ipc,            \* the step the running operation is at, "idle" between runs
    run,            \* the local variables of the running operation
    fetches,        \* document fetches of the run
    summary_calls,  \* calls of the summarization service in the run
    writes,         \* history: the files the run wrote, in order
    runs,           \* the number of runs started
    crashes,        \* the number of runs that the server stopped in
    hist,           \* history: the last completed ingestion, the last run
    \* index generation (generate_detailed_index_async)
    files_to_index,         \* the argument downloaded_files_map: local path -> url
    files,                  \* what each file holds: text, blank, unreadable
    service,                \* what the summarization service does for each file
    file_metadata,
    summarization_tasks,
    summary_results,
    batch_start,            \* i of the loop over the batches
    calls_in_flight,        \* the calls of the summarization service that have not ended
    cooldowns,              \* history: the delays slept between batches
    detailed_index_md,      \* the entries of detailed_index.md, once written
    gpc,                    \* where generate_detailed_index_async is
    \* direct download (download_file, gathered by setup_documentation_source)
    dl_site,                \* what the site answers to the successive GETs of each url
    dl_gets,                \* history: the calls of session.get made for each url
    dl_contents,            \* downloaded_contents: "pending", a text, or nothing
    dpc,                    \* where the gathering of the downloads is
    \* registry (load_indexed_docs_state, discover_existing_cache_directories,
    \* save_indexed_docs_state, and the tools that change INDEXED_DOCS)
    indexed_docs,           \* INDEXED_DOCS of the server: url -> its cache_dir
    current_active_doc,     \* CURRENT_ACTIVE_DOC
    state_data,             \* what .indexed_docs_state.json holds
    cache_dirs,             \* the directories of BASE_CACHE_DIR: their .source_url
    healed,                 \* history: the entries the last load dropped
    last,                   \* history: the last event, a tool call and its reply
    rpc,                    \* where the server is: load, discover, initial, serve
    DOCS_ROOT_PATH_ABS,     \* the legacy global: a cache directory, or None
    DETAILED_INDEX_CONTENT, \* the legacy global: the source whose index it holds
    agent,                  \* the query ask_doc_agent is answering, if any
    \* read_files
    docs_root_path,
    files_to_read,
    all_content,
    read_index,             \* the paths of files_to_read the loop has been through
    read_pc,                \* where read_files is
    \* the saving of scraped pages (scrape_single_page_async in the threads of
    \* the pool of scrape_documentation_site)
    save_workers,           \* max_workers of the ThreadPoolExecutor
    scrapers,               \* for each url of the crawl, where its scrape is
    temp_files              \* the files of temp_output_folder: path -> the page it holds

pmVars == <<pm_in, pm_out>>
crawlVars == <<start_url, subdomain_to_keep, max_workers, max_urls, master_visited_urls,
               master_to_visit_urls_q, future_to_url_map, all_scraped_results,
               urls_processed_count, successful_scrapes, failed_scrapes, cpc, submitted>>
ingestVars == <<op, remote, disk, INDEXED_DOCS, state_file, ipc, run, fetches,
                summary_calls, writes, runs, crashes, hist>>
indexVars == <<files_to_index, files, service, file_metadata, summarization_tasks,
               summary_results, batch_start, calls_in_flight, cooldowns,
               detailed_index_md, gpc>>
dlVars == <<dl_site, dl_gets, dl_contents, dpc>>
legacyVars == <<DOCS_ROOT_PATH_ABS, DETAILED_INDEX_CONTENT>>
regVars == <<indexed_docs, current_active_doc, state_data, cache_dirs, healed, last, rpc,
             legacyVars, agent>>
readVars == <<docs_root_path, files_to_read, all_content, read_index, read_pc>>
saveVars == <<save_workers, scrapers, temp_files>>
toolVars == <<dlVars, regVars, readVars, saveVars>>
BesidesDownload == <<pmVars, crawlVars, ingestVars, indexVars, regVars, readVars, saveVars>>
BesidesRegistry == <<pmVars, crawlVars, ingestVars, indexVars, dlVars, readVars, saveVars>>
BesidesRead == <<pmVars, crawlVars, ingestVars, indexVars, dlVars, regVars, saveVars>>
BesidesSave == <<pmVars, crawlVars, ingestVars, indexVars, dlVars, regVars, readVars>>
vars == <<pmVars, crawlVars, ingestVars, indexVars, toolVars>>

(***************************************************************************)
(* Strings as sequences of characters                                      *)
(***************************************************************************)

\* the longest URL path (after its leading "/") and the longest relative
\* reference that the PathMapper is tried on
MaxPathLen == 5

SL == "/"
DOT == "."
DOTDOT == <<".", ".">>

\* all sequences over S of length 0..n
BSeq(S, n) == UNION {[1..k -> S] : k \in 0..n}

RECURSIVE LStrip(_, _)
\* str.lstrip(c)
LStrip(s, c) == IF s # <<>> /\ Head(s) = c THEN LStrip(Tail(s), c) ELSE s

RECURSIVE RStrip(_, _)
\* str.rstrip(c)
RStrip(s, c) ==
    IF s # <<>> /\ s[Len(s)] = c THEN RStrip(SubSeq(s, 1, Len(s) - 1), c) ELSE s

\* str.startswith(p)
StartsWith(s, p) == Len(p) <= Len(s) /\ SubSeq(s, 1, Len(p)) = p

RECURSIVE SplitAcc(_, _, _)
SplitAcc(s, c, cur) ==
    IF s = <<>> THEN <<cur>>
    ELSE IF Head(s) = c THEN <<cur>> \o SplitAcc(Tail(s), c, <<>>)
    ELSE SplitAcc(Tail(s), c, Append(cur, Head(s)))

\* str.split(c): the segments between the separators, empty ones included
Split(s, c) == SplitAcc(s, c, <<>>)

RECURSIVE Join(_, _)
\* c.join(segs)
Join(segs, c) ==
    IF segs = <<>> THEN <<>>
    ELSE IF Len(segs) = 1 THEN segs[1]
    ELSE segs[1] \o <<c>> \o Join(Tail(segs), c)

\* x in list
InSeq(x, q) == \E i \in 1..Len(q) : q[i] = x

RECURSIVE RFind(_, _, _)
\* str.rfind(c): the last position of c in s[1..i], 0 when there is none
RFind(s, c, i) == IF i = 0 THEN 0 ELSE IF s[i] = c THEN i ELSE RFind(s, c, i - 1)

\* posixpath.dirname: "if head and head != sep*len(head): head = head.rstrip(sep)"
StripHead(head) ==
    IF head # <<>> /\ (\E k \in 1..Len(head) : head[k] # SL)
    THEN RStrip(head, SL) ELSE head

\* posixpath.dirname
dirname(p) == StripHead(SubSeq(p, 1, RFind(p, SL, Len(p))))

\* posixpath.isabs
isabs(p) == p # <<>> /\ Head(p) = SL

\* posixpath.join(a, b), for a non-empty a
pathjoin(a, b) ==
    IF isabs(b) THEN b
    ELSE IF a[Len(a)] = SL THEN a \o b ELSE a \o <<SL>> \o b

RECURSIVE NormComps(_, _, _)
\* the loop of posixpath.normpath over the components
NormComps(comps, initial_slashes, new_comps) ==
    IF comps = <<>> THEN new_comps
    ELSE LET comp == Head(comps)
             rest == Tail(comps)
         IN  IF comp = <<>> \/ comp = <<DOT>>
             THEN NormComps(rest, initial_slashes, new_comps)
             ELSE IF comp # DOTDOT
                     \/ (initial_slashes = 0 /\ new_comps = <<>>)
                     \/ (new_comps # <<>> /\ new_comps[Len(new_comps)] = DOTDOT)
             THEN NormComps(rest, initial_slashes, Append(new_comps, comp))
             ELSE IF new_comps # <<>>
             THEN NormComps(rest, initial_slashes,
                            SubSeq(new_comps, 1, Len(new_comps) - 1))
             ELSE NormComps(rest, initial_slashes, new_comps)

\* posixpath.normpath: the number of slashes the path keeps at its start
initial_slashes(path) ==
    IF ~StartsWith(path, <<SL>>) THEN 0
    ELSE IF StartsWith(path, <<SL, SL>>) /\ ~StartsWith(path, <<SL, SL, SL>>) THEN 2
    ELSE 1

\* posixpath.normpath: "path = sep*initial_slashes + path; return path or dot"
WithInitialSlashes(n, joined) ==
    IF n = 2 THEN <<SL, SL>> \o joined
    ELSE IF n = 1 THEN <<SL>> \o joined
    ELSE IF joined = <<>> THEN <<DOT>>
    ELSE joined

\* posixpath.normpath
normpath(path) ==
    IF path = <<>> THEN <<DOT>>
    ELSE WithInitialSlashes(initial_slashes(path),
                            Join(NormComps(Split(path, SL), initial_slashes(path), <<>>), SL))

(***************************************************************************)
(* URLs.  A parsed URL is a record [netloc, path]; the scheme is https      *)
(* throughout and the PathMapper reads neither query nor fragment.          *)
(***************************************************************************)

\* the characters that paths are made of
Chars == {"/", ".", "d", "x"}

\* the host of the main index, and another host
MainHost == <<"h">>
OtherHost == <<"o">>

\* position of the first c in s at or after i, Len(s) + 1 when there is none
RECURSIVE Find(_, _, _)
Find(s, c, i) == IF i > Len(s) THEN Len(s) + 1 ELSE IF s[i] = c THEN i ELSE Find(s, c, i + 1)

\* urlparse of a reference without a scheme: "//netloc/path", or a bare path
urlparse_ref(ref) ==
    IF StartsWith(ref, <<SL, SL>>)
    THEN LET i == Find(ref, SL, 3)
         IN  [netloc |-> SubSeq(ref, 3, i - 1), path |-> SubSeq(ref, i, Len(ref))]
    ELSE [netloc |-> <<>>, path |-> ref]

\* segments[1:-1] = filter(None, segments[1:-1])
FilterMiddle(segments) ==
    IF Len(segments) < 3 THEN segments
    ELSE <<segments[1]>>
         \o SelectSeq(SubSeq(segments, 2, Len(segments) - 1), LAMBDA g : g # <<>>)
         \o <<segments[Len(segments)]>>

RECURSIVE ResolveDots(_, _)
\* the loop of urljoin that removes "." and ".." segments
ResolveDots(segments, resolved_path) ==
    IF segments = <<>> THEN resolved_path
    ELSE LET seg == Head(segments)
         IN  IF seg = DOTDOT
             THEN ResolveDots(Tail(segments),
                              IF resolved_path = <<>> THEN <<>>
                              ELSE SubSeq(resolved_path, 1, Len(resolved_path) - 1))
             ELSE IF seg = <<DOT>> THEN ResolveDots(Tail(segments), resolved_path)
             ELSE ResolveDots(Tail(segments), Append(resolved_path, seg))

\* urljoin: "base_parts = bpath.split('/'); if base_parts[-1] != '': del base_parts[-1]"
BaseParts(bp) == IF bp[Len(bp)] # <<>> THEN SubSeq(bp, 1, Len(bp) - 1) ELSE bp

\* urljoin: the segments of the joined path, before "." and ".." are resolved
Segments(bpath, path) ==
    IF Head(path) = SL THEN Split(path, SL)
    ELSE FilterMiddle(BaseParts(Split(bpath, SL)) \o Split(path, SL))

\* urljoin: "if segments[-1] in ('.', '..'): resolved_path.append('')"
Resolved(segments) ==
    IF segments[Len(segments)] = <<DOT>> \/ segments[Len(segments)] = DOTDOT
    THEN Append(ResolveDots(segments, <<>>), <<>>)
    ELSE ResolveDots(segments, <<>>)

\* urljoin: "'/'.join(resolved_path) or '/'", and urlunparse, which puts a "/"
\* before a path that lacks one
Unparsed(joined) ==
    IF joined = <<>> THEN <<SL>>
    ELSE IF Head(joined) # SL THEN <<SL>> \o joined
    ELSE joined

\* urljoin, once the reference is parsed
JoinParsed(base, r) ==
    IF r.netloc # <<>> THEN [netloc |-> r.netloc, path |-> r.path]
    ELSE IF r.path = <<>> THEN base
    ELSE [netloc |-> base.netloc,
          path |-> Unparsed(Join(Resolved(Segments(base.path, r.path)), SL))]

\* urllib.parse.urljoin(base, ref) followed by urlparse, for a base with a
\* netloc and a reference without a scheme
urljoin(base, ref) == IF ref = <<>> THEN base ELSE JoinParsed(base, urlparse_ref(ref))

(***************************************************************************)
(* PathMapper                                                              *)
(***************************************************************************)

None == [ok |-> FALSE, path |-> <<>>]
Some(p) == [ok |-> TRUE, path |-> p]

\* the sentinel file name of a domain root, "_root_index.md"
RootIndexName == <<"_", "r">>

\* lines 299-304: urlparse(urljoin(main_index_url_str, file_url_str))
ParsedFile(main, file) ==
    IF file.abs THEN [netloc |-> file.netloc, path |-> file.path]
    ELSE urljoin(main, file.ref)

\* lines 306-314: the path of the file on another host, under the directory
\* of the main index, or elsewhere on its host
RelativeTo(main_netloc, main_index_dir_path, file_parsed) ==
    IF main_netloc # file_parsed.netloc
    THEN LStrip(file_parsed.path, SL)
    ELSE IF StartsWith(file_parsed.path, main_index_dir_path)
            /\ main_index_dir_path # <<SL>>
         THEN LStrip(SubSeq(file_parsed.path, Len(main_index_dir_path) + 1,
                            Len(file_parsed.path)), SL)
         ELSE LStrip(file_parsed.path, SL)

\* lines 316-318: "if not relative_path"
OrRootIndex(relative_path) == IF relative_path = <<>> THEN RootIndexName ELSE relative_path

\* lines 298-318 of get_local_path_from_url: the path of the file relative to
\* the cache root.  main: the parsed main index URL; file:
\* [abs |-> TRUE, netloc, path] for a URL with scheme and netloc,
\* [abs |-> FALSE, ref] for any other reference
derive_relative_path(main, file) ==
    OrRootIndex(RelativeTo(main.netloc, dirname(main.path), ParsedFile(main, file)))

\* the check of line 320 that a ".." segment or an absolute path is dropped,
\* left out
InvalidRelativePath_AbsOnly(relative_path) == isabs(relative_path)

\* the check of line 320: a ".." segment, or an absolute path
InvalidRelativePath(relative_path) ==
    InSeq(DOTDOT, Split(relative_path, SL)) \/ isabs(relative_path)

\* lines 320-329: None for a path that fails the check, else the normalized
\* path under the cache root
CheckedPath(relative_path, root) ==
    IF InvalidRelativePath(relative_path) THEN None
    ELSE Some(normpath(pathjoin(root, relative_path)))

\* get_local_path_from_url(main_index_url_str, file_url_str, unique_cache_root_abs)
get_local_path_from_url(main, file, root) ==
    CheckedPath(derive_relative_path(main, file), root)

\* the cache roots the PathMapper is tried with
Roots == {<<"/", "c">>, <<"/", "c", "/", "p">>}

\* the main index URLs the PathMapper is tried with
MainUrls == {[netloc |-> MainHost, path |-> <<>>],
             [netloc |-> MainHost, path |-> <<"/", "m">>],
             [netloc |-> MainHost, path |-> <<"/", "d", "/", "m">>]}

\* the file URLs the PathMapper is tried with: URLs with scheme and netloc on
\* the main host and on another one, and references without a scheme
FileUrls ==
    {[abs |-> TRUE, netloc |-> h, path |-> <<>>] : h \in {MainHost, OtherHost}}
    \cup {[abs |-> TRUE, netloc |-> h, path |-> <<SL>> \o t] :
              h \in {MainHost, OtherHost}, t \in BSeq(Chars, MaxPathLen - 1)}
    \cup {[abs |-> FALSE, ref |-> t] : t \in BSeq(Chars, MaxPathLen)}

PathIdle == /\ pm_in = [main |-> [netloc |-> MainHost, path |-> <<>>],
                         file |-> [abs |-> FALSE, ref |-> <<>>],
                         root |-> <<"/", "c">>]
            /\ pm_out = <<"idle">>

PathInit == /\ pm_in \in [main : MainUrls, file : FileUrls, root : Roots]
            /\ pm_out = <<"pending">>

\* one call of get_local_path_from_url
MapPath == /\ pm_out = <<"pending">>
           /\ pm_out' = <<"ret", get_local_path_from_url(pm_in.main, pm_in.file, pm_in.root)>>
           /\ UNCHANGED <<pm_in, crawlVars, ingestVars, indexVars, toolVars>>

(***************************************************************************)
(* Crawl loops.  A URL string is a sequence of tokens: "H" stands for       *)
(* "https://h" (scheme and host of the documentation site), "O" for         *)
(* "https://o" (another site); "/", "?", "#" are themselves and any other   *)
(* token is one character of a path segment, a query or a fragment.        *)
(***************************************************************************)

\* the widest worker pool, the most links taken from one page, the highest cap
MaxWorkers == 2
MaxLinks == 2
MaxUrls == 3

H == "H"
O == "O"

\* the URLs (as written in href attributes) that pages link to
Hrefs == {<<H, "/">>, <<H, "/", "a">>, <<H, "/", "a", "/">>, <<H, "/", "a", "?", "q">>,
          <<H, "/", "a", "#", "f">>, <<H, "/", "a", "/", "b">>, <<H, "/", "a", "b">>,
          <<O, "/", "a">>}

\* the URLs a crawl is started at
StartUrls == {<<H>>, <<H, "/">>, <<H, "/", "a">>, <<H, "/", "a", "?", "q">>}

\* the scope patterns a crawl is given: none, the site, a directory of it
KeepPatterns == {<<>>, <<H, "/">>, <<H, "/", "a", "/">>}

\* the sets of hrefs one page can hold
LinkSets == {ls \in SUBSET Hrefs : Cardinality(ls) <= MaxLinks}

\* str.count('/'): the two of "https://" and those of the rest
CountSlash(u) == 2 + Cardinality({i \in 1..Len(u) : u[i] = SL})

\* str.endswith('/')
EndsWithSlash(u) == u # <<>> /\ u[Len(u)] = SL

\* urlparse(url)._replace(fragment="", query="").geturl(): the fragment starts
\* at the first "#", the query at the first "?" before it
StripQueryFragment(u) ==
    LET f == Find(u, "#", 1)
        noFrag == SubSeq(u, 1, f - 1)
        q == Find(noFrag, "?", 1)
    IN  SubSeq(noFrag, 1, q - 1)

\* normalize_url of scrape_documentation_site
normalize_url(url) ==
    LET normalized == StripQueryFragment(url)
    IN  IF EndsWithSlash(normalized) /\ CountSlash(normalized) > 2
        THEN RStrip(normalized, SL) ELSE normalized

\* the normalization of complete_docs_scraper: fragment and query only
cds_normalize_url(url) == StripQueryFragment(url)

\* "Ensure subdomain_to_keep ends with /" (no token is a ".", so the last
\* path segment never holds one)
EnsureSlash(keep) == IF EndsWithSlash(keep) THEN keep ELSE Append(keep, SL)

\* get_all_links_from_html of doc_agent_server.py, for a page holding hrefs
get_all_links_from_html(hrefs, keep) ==
    LET norm(h) == LET n == StripQueryFragment(h)
                   IN  IF EndsWithSlash(n) /\ n # Append(RStrip(keep, SL), SL)
                       THEN RStrip(n, SL) ELSE n
    IN  {norm(h) : h \in {g \in hrefs : StartsWith(norm(g), RStrip(keep, SL))}}

\* get_all_links_from_html of complete_docs_scraper.py
cds_get_all_links_from_html(hrefs, keep) ==
    {StripQueryFragment(h) : h \in {g \in hrefs : StartsWith(StripQueryFragment(g), keep)}}

\* the scope strings a crawl can run with
Scopes == {EnsureSlash(IF k = <<>> THEN RStrip(u, SL) ELSE k) :
              u \in StartUrls, k \in KeepPatterns}

\* the link lists get_all_links_from_html returns for the pages of the site,
\* per scope string
PageLinks == [keep \in Scopes |->
                 {get_all_links_from_html(hs, keep) : hs \in LinkSets}]

\* a call of scrape_single_page_async that has begun, with its retry_count
\* and, as history, the number of attempts that failed; a call that returned
\* None, one that returned a result, and one that returned None after its
\* last attempt failed (exhausted)
Running == [ok |-> FALSE, running |-> TRUE, links |-> {}, retry_count |-> 0,
            failed_attempts |-> 0, exhausted |-> FALSE, page |-> "none"]
Failed == [ok |-> FALSE, running |-> FALSE, links |-> {}, retry_count |-> 0,
           failed_attempts |-> 0, exhausted |-> FALSE, page |-> "none"]
Scraped(links) == [Failed EXCEPT !.ok = TRUE, !.links = links]
GaveUp(failed_attempts) ==
    [Failed EXCEPT !.exhausted = TRUE, !.failed_attempts = failed_attempts]

\* "Skip pages with minimal content": the least length that is kept
MinContent == 50

\* a title is the set of the phrases that its lower case holds; the pages that
\* are told apart have one of three titles and a content just below or at
\* the least length
Titles == {{"guide"}, {"404", "not found", "page not found"}, {"error"}}
Pages == [title : Titles, length : {MinContent - 1, MinContent}]

\* "Skip error pages"
IsErrorTitle(page_title) ==
    \E indicator \in {"page not found", "404", "error", "not found"} :
        indicator \in page_title

\* what a page is, as history: one with the title of an error page, one with
\* too little content, or one to keep
PageKind(page) ==
    IF IsErrorTitle(page.title) THEN "error_title"
    ELSE IF page.length < MinContent THEN "short"
    ELSE "fine"

\* every page that loaded is saved and returned
scrape_result_Unfiltered(page, links) == [Scraped(links) EXCEPT !.page = PageKind(page)]

\* scrape_single_page_async once the page has loaded: None for an error page
\* and for a page with minimal content, otherwise the page is saved and
\* returned with its links
scrape_result(page, links) ==
    IF IsErrorTitle(page.title) THEN [Failed EXCEPT !.page = PageKind(page)]
    ELSE IF page.length < MinContent THEN [Failed EXCEPT !.page = PageKind(page)]
    ELSE [Scraped(links) EXCEPT !.page = PageKind(page)]

\* what scrape_single_page_async returns for the pages of the site that
\* load, per scope string
PageResults == [keep \in Scopes |->
                   {scrape_result(page, links) : page \in Pages, links \in PageLinks[keep]}]

\* max_retries of scrape_single_page_async and of scrape_single_page
max_retries == 2

\* the widest pool an ingest operation passes on
MaxPool == 50

\* an attempt that fails is followed by another as long as retry_count is at
\* most max_retries
AfterFailure_OffByOne(retry_count, close_raises) ==
    IF retry_count > max_retries THEN [retry_count |-> retry_count, returns |-> TRUE]
    ELSE [retry_count |-> retry_count + 1, returns |-> FALSE]

\* what follows an attempt that failed: the except branches count the retry
\* and go on, or return None when retry_count has reached max_retries; a
\* browser.close() that raises in the inner branch brings the outer one
\* after it
AfterFailure(retry_count, close_raises) ==
    IF retry_count >= max_retries THEN [retry_count |-> retry_count, returns |-> TRUE]
    ELSE IF ~close_raises THEN [retry_count |-> retry_count + 1, returns |-> FALSE]
    ELSE IF retry_count + 1 < max_retries
         THEN [retry_count |-> retry_count + 2, returns |-> FALSE]
         ELSE [retry_count |-> retry_count + 1, returns |-> TRUE]

\* max_workers as the ingest operations pass it on, whatever they were given
ClampWorkers(requested) ==
    IF requested < 1 THEN 1 ELSE IF requested > MaxPool THEN MaxPool ELSE requested

\* the values of max_workers an ingest operation is called with
RequestedWorkers == (0..MaxWorkers) \cup {MaxPool + 1}

InFlight == DOMAIN future_to_url_map

\* room is taken to be there all the time
HasRoom_Always == TRUE

\* len(future_to_url_map) < max_workers (and no more than MaxWorkers units
\* are followed at a time, however wide the pool)
HasRoom == Cardinality(InFlight) < max_workers /\ Cardinality(InFlight) < MaxWorkers
DoneFutures == {n \in InFlight : ~future_to_url_map[n].running}

\* f without the keys in K
Without(f, K) == [x \in (DOMAIN f) \ K |-> f[x]]

CrawlIdle ==
    /\ start_url = <<>> /\ subdomain_to_keep = <<>> /\ max_workers = 0 /\ max_urls = 0
    /\ master_visited_urls = {} /\ master_to_visit_urls_q = {}
    /\ future_to_url_map = <<>> /\ all_scraped_results = {}
    /\ urls_processed_count = 0 /\ successful_scrapes = 0 /\ failed_scrapes = 0
    /\ cpc = "idle" /\ submitted = <<>>

\* scrape_and_index_documentation brings max_workers into 1..50 and calls
\* scrape_documentation_site; that function up to its loop: start_url.rstrip('/'),
\* the default and the trailing slash of subdomain_to_keep, the empty sets and
\* counters
CrawlInit ==
    /\ \E u \in StartUrls, k \in KeepPatterns :
          /\ start_url = RStrip(u, SL)
          /\ subdomain_to_keep = EnsureSlash(IF k = <<>> THEN RStrip(u, SL) ELSE k)
    /\ \E requested \in RequestedWorkers : max_workers = ClampWorkers(requested)
    /\ max_urls = 0
    /\ master_visited_urls = {}
    /\ master_to_visit_urls_q = {start_url}
    /\ future_to_url_map = <<>>
    /\ all_scraped_results = {}
    /\ urls_processed_count = 0 /\ successful_scrapes = 0 /\ failed_scrapes = 0
    /\ cpc = "submit"
    /\ submitted = <<>>

\* one more executor.submit of url n
Logged(n) == IF n \in DOMAIN submitted THEN [submitted EXCEPT ![n] = @ + 1]
             ELSE submitted @@ (n :> 1)

\* Submit, where the url is not marked as visited when its scrape is submitted
Submit_NotMarked ==
    /\ cpc = "submit"
    /\ master_to_visit_urls_q # {}
    /\ HasRoom
    /\ \E current_url_to_fetch \in master_to_visit_urls_q :
          LET normalized_url == normalize_url(current_url_to_fetch)
          IN  /\ master_to_visit_urls_q' = master_to_visit_urls_q \ {current_url_to_fetch}
              /\ IF normalized_url \in master_visited_urls
                 THEN UNCHANGED <<urls_processed_count, future_to_url_map, submitted>>
                 ELSE /\ urls_processed_count' = urls_processed_count + 1
                      /\ future_to_url_map' = future_to_url_map @@ (normalized_url :> Running)
                      /\ submitted' = Logged(normalized_url)
    /\ UNCHANGED <<start_url, subdomain_to_keep, max_workers, max_urls, all_scraped_results,
                   master_visited_urls, successful_scrapes, failed_scrapes, cpc, pmVars,
                   ingestVars, indexVars, toolVars>>

\* one pass of the inner while loop: pop a url, normalize it, skip it if it
\* was visited, otherwise mark it visited, count it and submit its scrape
Submit ==
    /\ cpc = "submit"
    /\ master_to_visit_urls_q # {}
    /\ HasRoom
    /\ \E current_url_to_fetch \in master_to_visit_urls_q :
          LET normalized_url == normalize_url(current_url_to_fetch)
          IN  /\ master_to_visit_urls_q' = master_to_visit_urls_q \ {current_url_to_fetch}
              /\ IF normalized_url \in master_visited_urls
                 THEN UNCHANGED <<master_visited_urls, urls_processed_count,
                                  future_to_url_map, submitted>>
                 ELSE /\ master_visited_urls' = master_visited_urls \cup {normalized_url}
                      /\ urls_processed_count' = urls_processed_count + 1
                      /\ future_to_url_map' = future_to_url_map @@ (normalized_url :> Running)
                      /\ submitted' = Logged(normalized_url)
    /\ UNCHANGED <<start_url, subdomain_to_keep, max_workers, max_urls, all_scraped_results,
                   successful_scrapes, failed_scrapes, cpc, pmVars, ingestVars, indexVars, toolVars>>

\* the inner loop ends: break when nothing is in flight and nothing is queued,
\* otherwise go on to the completed futures
EndSubmit ==
    /\ cpc = "submit"
    /\ ~(master_to_visit_urls_q # {} /\ HasRoom)
    /\ cpc' = IF InFlight = {}
              THEN (IF master_to_visit_urls_q = {} THEN "done" ELSE "submit")
              ELSE "collect"
    /\ UNCHANGED <<start_url, subdomain_to_keep, max_workers, max_urls, master_visited_urls,
                   master_to_visit_urls_q, future_to_url_map, all_scraped_results,
                   urls_processed_count, successful_scrapes, failed_scrapes, submitted, pmVars, ingestVars, indexVars, toolVars>>

\* an attempt of scrape_single_page_async(n), or of scrape_single_page(n),
\* fails: the browser does not start, the page does not load, or the browser
\* does not close
AttemptFails(n) ==
    /\ n \in InFlight
    /\ future_to_url_map[n].running
    /\ \E close_raises \in BOOLEAN :
          future_to_url_map' = [future_to_url_map EXCEPT
              ![n] = IF AfterFailure(@.retry_count, close_raises).returns
                     THEN GaveUp(@.failed_attempts + 1)
                     ELSE [@ EXCEPT
                             !.retry_count = AfterFailure(@, close_raises).retry_count,
                             !.failed_attempts = @ + 1]]
    /\ UNCHANGED <<start_url, subdomain_to_keep, max_workers, max_urls, master_visited_urls,
                   master_to_visit_urls_q, all_scraped_results, urls_processed_count,
                   successful_scrapes, failed_scrapes, cpc, submitted, pmVars, ingestVars,
                   indexVars, toolVars>>

\* a worker thread ends scrape_single_page_async(n) after an attempt that
\* did not raise: no result for a page without content, otherwise what the
\* page leads to
WorkerDone(n) ==
    /\ n \in InFlight
    /\ future_to_url_map[n].running
    /\ \/ future_to_url_map' = [future_to_url_map EXCEPT ![n] = Failed]
       \/ \E result \in PageResults[subdomain_to_keep] :
             future_to_url_map' = [future_to_url_map EXCEPT ![n] = result]
    /\ UNCHANGED <<start_url, subdomain_to_keep, max_workers, max_urls, master_visited_urls,
                   master_to_visit_urls_q, all_scraped_results, urls_processed_count,
                   successful_scrapes, failed_scrapes, cpc, submitted, pmVars, ingestVars, indexVars, toolVars>>

\* the links in scope of the results in done, visited or not
NewLinks_Unfiltered(done) ==
    {norm_link \in {normalize_url(link) :
                      link \in UNION {future_to_url_map[n].links : n \in done}} :
        StartsWith(norm_link, RStrip(subdomain_to_keep, SL))}

\* the links of the results in done that the loop adds to the queue
NewLinks(done) ==
    {norm_link \in {normalize_url(link) :
                      link \in UNION {future_to_url_map[n].links : n \in done}} :
        /\ StartsWith(norm_link, RStrip(subdomain_to_keep, SL))
        /\ norm_link \notin master_visited_urls
        /\ norm_link \notin master_to_visit_urls_q}

\* Collect, where a future without a result is left in future_to_url_map
CollectLeavesFailed ==
    /\ cpc = "collect"
    /\ LET done == DoneFutures
           ok == {n \in done : future_to_url_map[n].ok}
       IN  /\ future_to_url_map' = Without(future_to_url_map, ok)
           /\ successful_scrapes' = successful_scrapes + Cardinality(ok)
           /\ failed_scrapes' = failed_scrapes
           /\ all_scraped_results' = all_scraped_results \cup ok
           /\ master_to_visit_urls_q' = master_to_visit_urls_q \cup NewLinks(ok)
    /\ cpc' = "submit"
    /\ UNCHANGED <<start_url, subdomain_to_keep, max_workers, max_urls, master_visited_urls,
                   urls_processed_count, submitted, pmVars, ingestVars, indexVars, toolVars>>

\* "Process completed tasks as they finish": every future that is done is
\* popped, counted as success or failure, and its links are queued
Collect ==
    /\ cpc = "collect"
    /\ LET done == DoneFutures
           ok == {n \in done : future_to_url_map[n].ok}
       IN  /\ future_to_url_map' = Without(future_to_url_map, done)
           /\ successful_scrapes' = successful_scrapes + Cardinality(ok)
           /\ failed_scrapes' = failed_scrapes + Cardinality(done \ ok)
           /\ all_scraped_results' = all_scraped_results \cup ok
           /\ master_to_visit_urls_q' = master_to_visit_urls_q \cup NewLinks(ok)
    /\ cpc' = "submit"
    /\ UNCHANGED <<start_url, subdomain_to_keep, max_workers, max_urls, master_visited_urls,
                   urls_processed_count, submitted, pmVars, ingestVars, indexVars, toolVars>>

CrawlNext == \/ Submit
             \/ EndSubmit
             \/ \E n \in InFlight : AttemptFails(n)
             \/ \E n \in InFlight : WorkerDone(n)
             \/ Collect

(***************************************************************************)
(* The crawl loop of complete_docs_scraper.main                            *)
(***************************************************************************)

\* main up to its loop: args.url.rstrip('/'), args.keep or start_url with its
\* trailing slash, the cap --max-urls, the empty sets and counters
CdsInit ==
    /\ \E u \in StartUrls, k \in KeepPatterns :
          /\ start_url = RStrip(u, SL)
          /\ subdomain_to_keep = EnsureSlash(IF k = <<>> THEN RStrip(u, SL) ELSE k)
    /\ max_workers \in 1..MaxWorkers
    /\ max_urls \in 1..MaxUrls
    /\ master_visited_urls = {}
    /\ master_to_visit_urls_q = {start_url}
    /\ future_to_url_map = <<>>
    /\ all_scraped_results = {}
    /\ urls_processed_count = 0 /\ successful_scrapes = 0 /\ failed_scrapes = 0
    /\ cpc = "submit"
    /\ submitted = <<>>

\* the condition of the outer while loop
CdsGoOn(q, futures, count) == (q # {} \/ futures # {}) /\ count < max_urls

\* one pass of the inner while loop ("Submit new tasks")
CdsSubmit ==
    /\ cpc = "submit"
    /\ master_to_visit_urls_q # {}
    /\ Cardinality(InFlight) < max_workers
    /\ urls_processed_count < max_urls
    /\ \E current_url_to_fetch \in master_to_visit_urls_q :
          LET normalized_url == cds_normalize_url(current_url_to_fetch)
          IN  /\ master_to_visit_urls_q' = master_to_visit_urls_q \ {current_url_to_fetch}
              /\ IF normalized_url \in master_visited_urls
                 THEN UNCHANGED <<master_visited_urls, urls_processed_count,
                                  future_to_url_map, submitted>>
                 ELSE /\ master_visited_urls' = master_visited_urls \cup {normalized_url}
                      /\ urls_processed_count' = urls_processed_count + 1
                      /\ future_to_url_map' = future_to_url_map @@ (normalized_url :> Running)
                      /\ submitted' = Logged(normalized_url)
    /\ UNCHANGED <<start_url, subdomain_to_keep, max_workers, max_urls, all_scraped_results,
                   successful_scrapes, failed_scrapes, cpc, pmVars, ingestVars, indexVars, toolVars>>

\* the inner loop ends: with nothing in flight the outer loop breaks, or sleeps
\* and meets its own condition (false: the cap is reached); otherwise
\* as_completed takes over
CdsEndSubmit ==
    /\ cpc = "submit"
    /\ ~(/\ master_to_visit_urls_q # {}
         /\ Cardinality(InFlight) < max_workers
         /\ urls_processed_count < max_urls)
    /\ cpc' = IF InFlight # {} THEN "collect"
              ELSE IF master_to_visit_urls_q = {} THEN "done"
              ELSE IF CdsGoOn(master_to_visit_urls_q, InFlight, urls_processed_count)
                   THEN "submit" ELSE "done"
    /\ UNCHANGED <<start_url, subdomain_to_keep, max_workers, max_urls, master_visited_urls,
                   master_to_visit_urls_q, future_to_url_map, all_scraped_results,
                   urls_processed_count, successful_scrapes, failed_scrapes, submitted, pmVars, ingestVars, indexVars, toolVars>>

\* a worker thread ends scrape_single_page(n)
CdsWorkerDone(n) ==
    /\ n \in InFlight
    /\ future_to_url_map[n].running
    /\ \/ future_to_url_map' = [future_to_url_map EXCEPT ![n] = Failed]
       \/ \E hs \in LinkSets :
             future_to_url_map' = [future_to_url_map EXCEPT
                 ![n] = Scraped(cds_get_all_links_from_html(hs, subdomain_to_keep))]
    /\ UNCHANGED <<start_url, subdomain_to_keep, max_workers, max_urls, master_visited_urls,
                   master_to_visit_urls_q, all_scraped_results, urls_processed_count,
                   successful_scrapes, failed_scrapes, cpc, submitted, pmVars, ingestVars, indexVars, toolVars>>

\* the links of a result that the loop adds to the queue
CdsNewLinks(n) ==
    {norm_link \in {cds_normalize_url(link) : link \in future_to_url_map[n].links} :
        /\ StartsWith(norm_link, subdomain_to_keep)
        /\ norm_link \notin master_visited_urls
        /\ norm_link \notin master_to_visit_urls_q}

\* CdsCollect, where the loop over the completed futures is left as soon as
\* the cap is reached
CdsCollect_StopsAtCap(n) ==
    /\ cpc = "collect"
    /\ n \in DoneFutures
    /\ future_to_url_map' = Without(future_to_url_map, {n})
    /\ IF future_to_url_map[n].ok
       THEN /\ successful_scrapes' = successful_scrapes + 1
            /\ all_scraped_results' = all_scraped_results \cup {n}
            /\ master_to_visit_urls_q' = master_to_visit_urls_q \cup CdsNewLinks(n)
            /\ UNCHANGED failed_scrapes
       ELSE /\ failed_scrapes' = failed_scrapes + 1
            /\ UNCHANGED <<successful_scrapes, all_scraped_results, master_to_visit_urls_q>>
    /\ cpc' = IF urls_processed_count >= max_urls THEN "done"
              ELSE IF InFlight # {n} THEN "collect"
              ELSE IF CdsGoOn(master_to_visit_urls_q', {}, urls_processed_count)
                   THEN "submit" ELSE "done"
    /\ UNCHANGED <<start_url, subdomain_to_keep, max_workers, max_urls, master_visited_urls,
                   urls_processed_count, submitted, pmVars, ingestVars, indexVars, toolVars>>

\* one pass of "for future in as_completed(future_to_url_map)": the next
\* completed future is popped and handled; after the last one the outer loop
\* meets its condition
CdsCollect(n) ==
    /\ cpc = "collect"
    /\ n \in DoneFutures
    /\ future_to_url_map' = Without(future_to_url_map, {n})
    /\ IF future_to_url_map[n].ok
       THEN /\ successful_scrapes' = successful_scrapes + 1
            /\ all_scraped_results' = all_scraped_results \cup {n}
            /\ master_to_visit_urls_q' = master_to_visit_urls_q \cup CdsNewLinks(n)
            /\ UNCHANGED failed_scrapes
       ELSE /\ failed_scrapes' = failed_scrapes + 1
            /\ UNCHANGED <<successful_scrapes, all_scraped_results, master_to_visit_urls_q>>
    /\ cpc' = IF InFlight # {n} THEN "collect"
              ELSE IF CdsGoOn(master_to_visit_urls_q', {}, urls_processed_count)
                   THEN "submit" ELSE "done"
    /\ UNCHANGED <<start_url, subdomain_to_keep, max_workers, max_urls, master_visited_urls,
                   urls_processed_count, submitted, pmVars, ingestVars, indexVars, toolVars>>

CdsNext == \/ CdsSubmit
           \/ CdsEndSubmit
           \/ \E n \in InFlight : AttemptFails(n)
           \/ \E n \in InFlight : CdsWorkerDone(n)
           \/ \E n \in InFlight : CdsCollect(n)

(***************************************************************************)
(* Ingestion: the files of a project cache directory, and the operations    *)
(* that fill it, one step per file written.  A text (llms.txt,              *)
(* llms-full.txt, a document) is a name; what the code reads from a text    *)
(* (its links, its hash) is an operator on the name.                        *)
(***************************************************************************)

\* the most runs of an operation that are not stopped, and the most that are
MaxRuns == 2
MaxCrashes == 1

\* "Check first 10 links"
SampleSize == 10

\* ".md" and "index"
MdExt == <<".", "m", "d">>
IndexName == <<"i", "n", "d", "e", "x">>

\* str.endswith('.md')
EndsWithMd(s) == Len(s) >= 3 /\ SubSeq(s, Len(s) - 2, Len(s)) = MdExt

\* no text: a download that failed, a file that is missing
NoContent == ""

\* the URL of llms.txt, "https://h/d/m"
url_to_llmstxt == [netloc |-> MainHost, path |-> <<"/", "d", "/", "m">>]

\* the link targets of the manifests, by name: two markdown files next to
\* llms.txt, a markdown file whose path climbs out of its directory, and two
\* web pages
LinkUrl(id) ==
    CASE id = "A" -> [abs |-> TRUE, netloc |-> MainHost,
                      path |-> <<"/", "d", "/", "a">> \o MdExt]
      [] id = "B" -> [abs |-> TRUE, netloc |-> MainHost,
                      path |-> <<"/", "d", "/", "b">> \o MdExt]
      [] id = "X" -> [abs |-> TRUE, netloc |-> MainHost,
                      path |-> <<"/", "d", "/", ".", ".", "/", "x">> \o MdExt]
      [] id = "W1" -> [abs |-> TRUE, netloc |-> MainHost, path |-> <<"/", "d", "/", "a">>]
      [] id = "W2" -> [abs |-> TRUE, netloc |-> MainHost, path |-> <<"/", "d", "/", "b">>]

\* the texts llms.txt can be.  "MB" has the links of "MA" and differs from it
\* in a byte outside the links
Manifests == {"MA", "MB", "MC", "MW"}

\* re.findall(r'\[[^\]]*?\]\(([^)]+?)\)', content): the link targets, in order
Links(content) ==
    CASE content = "MA" -> <<"A", "B">>
      [] content = "MB" -> <<"A", "B">>
      [] content = "MC" -> <<"X", "A", "B">>
      [] content = "MW" -> <<"W1", "W2">>
      [] OTHER -> <<>>

\* the texts llms-full.txt can be
FullTexts == {"F1"}

\* what the site serves: llms.txt, and llms-full.txt or nothing
Remotes == [manifest : Manifests, full : FullTexts \cup {NoContent}]

\* the pages a crawl of the site finds, and the documents that
\* index_preformatted_markdown makes of its source file
SitePages == {"W1", "W2"}
final_docs ==
    <<[category |-> <<"U">>, filename |-> <<"_", "m">> \o MdExt, is_merged |-> TRUE],
      [category |-> <<"A">>, filename |-> <<"x">> \o MdExt, is_merged |-> FALSE]>>

\* a hash that does not read the content
compute_content_hash_OfNothing(content) == <<"sha256", NoContent>>

\* compute_content_hash: SHA256 of the content, taken to be free of collisions
compute_content_hash(content) == <<"sha256", content>>
NoHash == <<>>

\* detect_llms_txt_url_type (every link of the manifests starts with "http"
\* and none holds "/blob/" or "/raw/")
detect_llms_txt_url_type(llms_txt_content) ==
    LET markdown_links == Links(llms_txt_content)
        n == IF Len(markdown_links) < SampleSize THEN Len(markdown_links) ELSE SampleSize
        sample_links == SubSeq(markdown_links, 1, n)
        markdown_file_count ==
            Cardinality({k \in 1..n : EndsWithMd(LinkUrl(sample_links[k]).path)})
        web_page_count ==
            Cardinality({k \in 1..n : ~EndsWithMd(LinkUrl(sample_links[k]).path)})
    IN  IF markdown_links = <<>> THEN "web_pages"
        ELSE IF markdown_file_count > web_page_count THEN "markdown_files"
        ELSE "web_pages"

\* detailed_index.md: missing, or the entries for the files of a map
\* {local path: original url}
NoIndexFile == [present |-> FALSE, files |-> <<>>]
IndexFile(downloaded_files_map) == [present |-> TRUE, files |-> downloaded_files_map]

\* a directory that does not exist
NoDir == [exists |-> FALSE,
          source_url |-> FALSE,         \* .source_url holds the source of this behaviour
          marker |-> FALSE,             \* .download_complete
          hash |-> NoHash,              \* .llms_full_hash
          index_txt |-> NoContent,      \* _index.txt, the saved llms.txt
          llms |-> FALSE,               \* llms.txt and llms-full.txt made from scraped files
          detailed |-> NoIndexFile,     \* detailed_index.md
          docs |-> <<>>]                \* the document files: path -> content

\* the directory named after the project, and the one named after the project
\* and the hash of the URL
Dirs == {"base", "alt"}
CachePath(cache_dir) == IF cache_dir = "alt" THEN <<"/", "c", "_", "u">> ELSE <<"/", "c">>

\* "/tmp/scrape_<time>"
TempFolder == <<"/", "t">>

\* get_unique_cache_dir_name
get_unique_cache_dir_name(d) ==
    IF ~d["base"].exists THEN "base"
    ELSE IF d["base"].source_url THEN "base"
    ELSE "alt"

\* get_saved_llms_full_hash without its strip(): the hash as it stands in the
\* file, with the end of its line
get_saved_llms_full_hash_Unstripped(dir) ==
    IF dir.hash = NoHash THEN NoHash ELSE Append(dir.hash, "\n")

\* get_saved_llms_full_hash: None when the file is missing
get_saved_llms_full_hash(dir) == dir.hash

\* the branch taken when the completion marker is not looked at
CacheBranch_NoMarker(dir, current_llms_full_hash) ==
    IF dir.exists
    THEN [cached |-> TRUE,
          hash_matches |-> get_saved_llms_full_hash(dir) = current_llms_full_hash]
    ELSE [cached |-> FALSE, hash_matches |-> FALSE]

\* the branch of setup_documentation_source that a directory and a hash lead to
CacheBranch(dir, current_llms_full_hash) ==
    IF dir.exists /\ dir.marker
    THEN [cached |-> TRUE,
          hash_matches |-> get_saved_llms_full_hash(dir) = current_llms_full_hash]
    ELSE [cached |-> FALSE, hash_matches |-> FALSE]

RECURSIVE LStripSet(_, _)
RECURSIVE RStripSet(_, _)
LStripSet(s, C) == IF s # <<>> /\ Head(s) \in C THEN LStripSet(Tail(s), C) ELSE s
RStripSet(s, C) ==
    IF s # <<>> /\ s[Len(s)] \in C THEN RStripSet(SubSeq(s, 1, Len(s) - 1), C) ELSE s

\* sanitize_filename of doc_agent_server.py (no path holds a "%", so unquote
\* changes nothing)
sanitize_filename(url_path) ==
    LET replaced == [k \in 1..Len(url_path) |->
                        IF url_path[k] \in {"/", ":", "*", "?", "\"", "<", ">", "|"}
                        THEN "_" ELSE url_path[k]]
        sanitized == RStripSet(LStripSet(replaced, {"_", " "}), {"_", " "})
    IN  IF sanitized = <<>> THEN IndexName ELSE sanitized

RECURSIVE JoinAll(_, _)
\* os.path.join(a, *parts)
JoinAll(a, parts) == IF parts = <<>> THEN a ELSE JoinAll(pathjoin(a, Head(parts)), Tail(parts))

Digits == <<"1", "2", "3", "4", "5", "6", "7", "8", "9">>

RECURSIVE next_free_path(_, _, _)
\* "If file already exists, add a suffix"
next_free_path(original_filepath, counter, existing) ==
    LET saved_filepath ==
            IF counter = 0 THEN original_filepath
            ELSE SubSeq(original_filepath, 1, Len(original_filepath) - 3)
                 \o <<"_", Digits[counter]>> \o MdExt
    IN  IF saved_filepath \in existing
        THEN next_free_path(original_filepath, counter + 1, existing)
        ELSE saved_filepath

\* the file that scrape_single_page_async saves the page of a URL to
scrape_file_path(url_path_full, output_folder, existing) ==
    LET url_path == RStrip(LStrip(url_path_full, SL), SL)
        path_parts == Split(url_path, SL)
        n == Len(path_parts)
        folder_path == IF url_path # <<>> /\ n > 1
                       THEN JoinAll(output_folder, SubSeq(path_parts, 1, n - 1))
                       ELSE output_folder
        base_filename == IF url_path # <<>> /\ path_parts[n] # <<>>
                         THEN sanitize_filename(path_parts[n]) ELSE IndexName
    IN  next_free_path(pathjoin(folder_path, base_filename \o MdExt), 0, existing)

\* no file of the directory is found again
reconstructed_map_Empty(dir, root) == <<>>

\* the map {local path: url} that the cached branch of
\* setup_documentation_source rebuilds from the saved llms.txt and the files
\* of the directory
reconstructed_map(dir, root) ==
    LET cached_md_urls == Links(dir.index_txt)
        found == {k \in 1..Len(cached_md_urls) :
                     LET p == get_local_path_from_url(url_to_llmstxt,
                                                      LinkUrl(cached_md_urls[k]), root)
                     IN  p.ok /\ p.path \in DOMAIN dir.docs}
        path_of(k) == get_local_path_from_url(url_to_llmstxt,
                                              LinkUrl(cached_md_urls[k]), root).path
        temp_downloaded_map ==
            [p \in {path_of(k) : k \in found} |->
                cached_md_urls[CHOOSE k \in found :
                                  /\ path_of(k) = p
                                  /\ \A j \in found : path_of(j) = p => j <= k]]
    IN  IF found # {} THEN temp_downloaded_map
        ELSE [p \in DOMAIN dir.docs |-> "local_cached_file"]

\* the locals of an operation that is not running
RunIdle == [cache_dir |-> "",
            main_index_content_str |-> NoContent,
            llms_full_content |-> NoContent,
            current_llms_full_hash |-> NoHash,
            hash_matches |-> FALSE,
            decision |-> "",            \* the branch taken on the cache: absent, stale, fresh
            markdown_urls |-> <<>>,
            download_tasks |-> <<>>,
            downloaded_contents |-> <<>>,
            i |-> 0,
            files_map |-> <<>>,         \* downloaded_files_path_url_map_for_indexing
            pending |-> {},             \* the pages submitted and not yet scraped
            temp_docs |-> <<>>,         \* the files of the temporary folder
            temp_llms |-> FALSE]

\* the source identifier of the operation
Source == op

\* INDEXED_DOCS after a start of the server: load_indexed_docs_state keeps the
\* entries of the state file whose directory exists, and
\* discover_existing_cache_directories adds every directory with a .source_url
Restored(d) ==
    {s \in state_file : \E c \in Dirs : d[c].exists}
    \cup {s \in {Source} : \E c \in Dirs : d[c].exists /\ d[c].source_url}

NoneDone == [any |-> FALSE, manifest |-> NoContent, full |-> NoContent, hashed |-> NoContent]
NoCrash == [pc |-> "", decision |-> "", manifest |-> NoContent, full |-> NoContent]

IngestIdle ==
    /\ op = "" /\ remote = [manifest |-> NoContent, full |-> NoContent]
    /\ disk = [c \in Dirs |-> NoDir]
    /\ INDEXED_DOCS = {} /\ state_file = {}
    /\ ipc = "off" /\ run = RunIdle
    /\ fetches = 0 /\ summary_calls = 0 /\ writes = <<>> /\ runs = 0 /\ crashes = 0
    /\ hist = [last |-> "none", done |-> NoneDone, crash |-> NoCrash,
               start |-> [c \in Dirs |-> NoDir]]

\* a server that has just started with an empty cache
IngestInit ==
    /\ \/ op = "manifest" /\ remote \in Remotes
       \/ op \in {"scrape", "preformatted"} /\ remote = [manifest |-> NoContent, full |-> NoContent]
    /\ disk = [c \in Dirs |-> NoDir]
    /\ INDEXED_DOCS = {} /\ state_file = {}
    /\ ipc = "idle" /\ run = RunIdle
    /\ fetches = 0 /\ summary_calls = 0 /\ writes = <<>> /\ runs = 0 /\ crashes = 0
    /\ hist = [last |-> "none", done |-> NoneDone, crash |-> NoCrash,
               start |-> [c \in Dirs |-> NoDir]]

\* one more file written, or one more result of get_local_path_from_url
Wrote(kind, path) == Append(writes, [kind |-> kind, path |-> path])

\* the state of directory c with field f set to v
DiskWith(c, f, v) == [disk EXCEPT ![c][f] = v]

Others == <<pmVars, crawlVars, indexVars, toolVars>>

(***************************************************************************)
(* index_documentation and setup_documentation_source                      *)
(***************************************************************************)

\* the run ends: its outcome is recorded
Ended(outcome) == [hist EXCEPT !.last = outcome, !.start = [c \in Dirs |-> NoDir]]

\* a run begins: the counters are reset
BeginCounts ==
    /\ ipc = "idle"
    /\ runs - crashes < MaxRuns
    /\ runs' = runs + 1
    /\ fetches' = 0 /\ summary_calls' = 0
    /\ UNCHANGED crashes

\* a run begins, and writes no file in its first step
Begin == BeginCounts /\ writes' = <<>>

\* llms.txt cannot be downloaded: setup_documentation_source returns None and
\* index_documentation an error
DownloadManifestFails ==
    /\ op = "manifest"
    /\ Begin
    /\ hist' = Ended("failed")
    /\ UNCHANGED <<op, remote, disk, INDEXED_DOCS, state_file, ipc, run, Others>>

\* llms.txt and llms-full.txt are downloaded (llms.txt stands in for a
\* llms-full.txt that cannot be), the hash is computed, the directory is named
\* and the cache is looked at
CheckCache ==
    /\ op = "manifest"
    /\ Begin
    /\ LET main_index_content_str == remote.manifest
           llms_full_content == IF remote.full # NoContent THEN remote.full
                                ELSE main_index_content_str
           current_llms_full_hash == compute_content_hash(llms_full_content)
           cache_dir == get_unique_cache_dir_name(disk)
           branch == CacheBranch(disk[cache_dir], current_llms_full_hash)
       IN  /\ run' = [RunIdle EXCEPT
                        !.cache_dir = cache_dir,
                        !.main_index_content_str = main_index_content_str,
                        !.llms_full_content = llms_full_content,
                        !.current_llms_full_hash = current_llms_full_hash,
                        !.hash_matches = branch.hash_matches,
                        !.decision = IF ~branch.cached THEN "absent"
                                     ELSE IF branch.hash_matches THEN "fresh" ELSE "stale"]
           /\ ipc' = IF branch.cached THEN "cached" ELSE "download"
    /\ hist' = [hist EXCEPT !.start = disk]
    /\ UNCHANGED <<op, remote, disk, INDEXED_DOCS, state_file, Others>>

\* the directory of the run
Dir == disk[run.cache_dir]
Root == CachePath(run.cache_dir)

\* the cache is used as it is: detailed_index.md exists and the hash matches
ReuseCache ==
    /\ ipc = "cached"
    /\ Dir.index_txt # NoContent
    /\ Dir.detailed.present /\ run.hash_matches
    /\ ipc' = "register"
    /\ UNCHANGED <<op, remote, disk, INDEXED_DOCS, state_file, run, fetches, summary_calls,
                   writes, runs, crashes, hist, Others>>

\* generate_detailed_index_async: one summary for every file of the map (no
\* document is empty), then detailed_index.md is written
generate_detailed_index(downloaded_files_map) ==
    /\ summary_calls' = summary_calls + Cardinality(DOMAIN downloaded_files_map)
    /\ disk' = DiskWith(run.cache_dir, "detailed", IndexFile(downloaded_files_map))
    /\ writes' = Wrote("index", Root)

\* detailed_index.md is missing or the hash differs: the index is generated
\* again from the files of the directory
RegenerateIndex ==
    /\ ipc = "cached"
    /\ Dir.index_txt # NoContent
    /\ ~Dir.detailed.present \/ ~run.hash_matches
    /\ generate_detailed_index(reconstructed_map(Dir, Root))
    /\ ipc' = "regen_hash"
    /\ UNCHANGED <<op, remote, INDEXED_DOCS, state_file, run, fetches, runs, crashes, hist, Others>>

\* the regenerated index is not followed by a save of the hash
SaveRegeneratedHash_Skipped ==
    /\ ipc = "regen_hash"
    /\ ipc' = "register"
    /\ UNCHANGED <<op, remote, disk, INDEXED_DOCS, state_file, run, fetches, summary_calls,
                   writes, runs, crashes, hist, Others>>

\* "Save the new hash since we regenerated the detailed index"
SaveRegeneratedHash ==
    /\ ipc = "regen_hash"
    /\ disk' = DiskWith(run.cache_dir, "hash", run.current_llms_full_hash)
    /\ writes' = Wrote("hash", Root)
    /\ ipc' = "register"
    /\ UNCHANGED <<op, remote, INDEXED_DOCS, state_file, run, fetches, summary_calls, runs, crashes,
                   hist, Others>>

\* _index.txt of a complete cache is deleted, or made unreadable, by someone
\* else than the server, between two runs
LoseIndexTxt ==
    /\ op = "manifest"
    /\ ipc = "idle"
    /\ runs - crashes < MaxRuns
    /\ \E c \in Dirs :
          /\ disk[c].exists /\ disk[c].marker /\ disk[c].index_txt # NoContent
          /\ disk' = DiskWith(c, "index_txt", NoContent)
    /\ UNCHANGED <<op, remote, INDEXED_DOCS, state_file, ipc, run, fetches, summary_calls,
                   writes, runs, crashes, hist, Others>>

\* the cached branch cannot read _index.txt and keeps detailed_index.md
RebuildUnreadableCache_KeepsIndex ==
    /\ ipc = "cached"
    /\ Dir.index_txt = NoContent
    /\ disk' = DiskWith(run.cache_dir, "marker", FALSE)
    /\ writes' = Wrote("remove", Root)
    /\ run' = [run EXCEPT !.decision = "unreadable"]
    /\ ipc' = "download"
    /\ UNCHANGED <<op, remote, INDEXED_DOCS, state_file, fetches, summary_calls, runs, crashes,
                   hist, Others>>

\* the cached branch cannot read _index.txt: "Failed to read cached index
\* file ... Re-downloading."  The completion marker and detailed_index.md are
\* removed and the run goes on as for a directory without a marker
RebuildUnreadableCache ==
    /\ ipc = "cached"
    /\ Dir.index_txt = NoContent
    /\ disk' = [disk EXCEPT ![run.cache_dir].marker = FALSE,
                            ![run.cache_dir].detailed = NoIndexFile]
    /\ writes' = Wrote("remove", Root)
    /\ run' = [run EXCEPT !.decision = "unreadable"]
    /\ ipc' = "download"
    /\ UNCHANGED <<op, remote, INDEXED_DOCS, state_file, fetches, summary_calls, runs, crashes,
                   hist, Others>>

\* the completion marker is written as soon as the directory is made
MakeCacheDir_WithMarker ==
    /\ ipc = "download"
    /\ disk' = [disk EXCEPT ![run.cache_dir].exists = TRUE, ![run.cache_dir].marker = TRUE]
    /\ writes' = Wrote("marker", Root)
    /\ ipc' = "url_marker"
    /\ UNCHANGED <<op, remote, INDEXED_DOCS, state_file, run, fetches, summary_calls, runs, crashes,
                   hist, Others>>

\* os.makedirs of the cache directory, unless it exists
MakeCacheDir ==
    /\ ipc = "download"
    /\ disk' = DiskWith(run.cache_dir, "exists", TRUE)
    /\ writes' = IF Dir.exists THEN writes ELSE Wrote("mkdir", Root)
    /\ ipc' = "url_marker"
    /\ UNCHANGED <<op, remote, INDEXED_DOCS, state_file, run, fetches, summary_calls, runs, crashes,
                   hist, Others>>

\* the links of llms.txt for which get_local_path_from_url gives a path
Mappable(markdown_urls, root) ==
    SelectSeq(markdown_urls,
              LAMBDA md_url : get_local_path_from_url(url_to_llmstxt, LinkUrl(md_url), root).ok)

\* create_url_marker_file, where setup_documentation_source calls it
CreateUrlMarker ==
    /\ ipc = "url_marker"
    /\ disk' = DiskWith(run.cache_dir, "source_url", TRUE)
    /\ writes' = Wrote("source_url", Root)
    /\ ipc' = "save_manifest"
    /\ UNCHANGED <<op, remote, INDEXED_DOCS, state_file, run, fetches, summary_calls, runs, crashes,
                   hist, Others>>

\* llms.txt is saved as _index.txt, and its links are taken: pages to scrape,
\* or markdown files to download
SaveManifest ==
    /\ ipc = "save_manifest"
    /\ disk' = DiskWith(run.cache_dir, "index_txt", run.main_index_content_str)
    /\ writes' = Wrote("manifest", Root)
    /\ LET url_type == detect_llms_txt_url_type(run.main_index_content_str)
           urls == Links(run.main_index_content_str)
       IN  IF url_type = "web_pages"
           THEN /\ run' = [run EXCEPT !.pending = {urls[k] : k \in 1..Len(urls)}]
                /\ ipc' = IF urls = <<>> THEN "gen_index" ELSE "scrape_pages"
           ELSE /\ run' = [run EXCEPT !.markdown_urls = urls]
                /\ ipc' = "download_docs"
    /\ UNCHANGED <<op, remote, INDEXED_DOCS, state_file, fetches, summary_calls, runs, crashes,
                   hist, Others>>

\* a worker ends scrape_single_page_async for a page of llms.txt: nothing, or
\* the page saved under the cache directory
ScrapeManifestPage(web_url) ==
    /\ ipc = "scrape_pages"
    /\ web_url \in run.pending
    /\ fetches' = fetches + 1
    /\ ipc' = IF run.pending = {web_url} THEN "gen_index" ELSE "scrape_pages"
    /\ \/ /\ run' = [run EXCEPT !.pending = @ \ {web_url}]
          /\ UNCHANGED <<disk, writes>>
       \/ LET saved_filepath == scrape_file_path(LinkUrl(web_url).path, Root,
                                                 DOMAIN Dir.docs)
          IN  /\ disk' = DiskWith(run.cache_dir, "docs",
                                  Dir.docs @@ (saved_filepath :> web_url))
              /\ writes' = Wrote("doc", saved_filepath)
              /\ run' = [run EXCEPT !.pending = @ \ {web_url},
                                    !.files_map = @ @@ (saved_filepath :> web_url)]
    /\ UNCHANGED <<op, remote, INDEXED_DOCS, state_file, summary_calls, runs, crashes, hist, Others>>

\* the markdown files that have a local path are downloaded together; each
\* download gives its content, or nothing
DownloadDocs ==
    /\ ipc = "download_docs"
    /\ LET download_tasks == Mappable(run.markdown_urls, Root)
           n == Len(download_tasks)
       IN  /\ \E ok \in SUBSET (1..n) :
                 run' = [run EXCEPT
                           !.download_tasks = download_tasks,
                           !.downloaded_contents =
                               [k \in 1..n |-> IF k \in ok THEN download_tasks[k]
                                               ELSE NoContent],
                           !.i = 1]
           /\ fetches' = fetches + n
           /\ writes' = writes \o
                  [k \in 1..n |->
                      [kind |-> "map",
                       path |-> get_local_path_from_url(url_to_llmstxt,
                                    LinkUrl(download_tasks[k]), Root).path]]
           /\ ipc' = IF n = 0 THEN "gen_index" ELSE "save_docs"
    /\ UNCHANGED <<op, remote, disk, INDEXED_DOCS, state_file, summary_calls, runs, crashes,
                   hist, Others>>

\* one pass of "for i, content_or_exc in enumerate(downloaded_contents)": the
\* content is saved at the local path of markdown_urls[i]
SaveDoc ==
    /\ ipc = "save_docs"
    /\ LET content_or_exc == run.downloaded_contents[run.i]
           md_url_key == run.markdown_urls[run.i]
           local_md_path_abs == get_local_path_from_url(url_to_llmstxt,
                                                        LinkUrl(md_url_key), Root)
       IN  IF ~local_md_path_abs.ok \/ content_or_exc = NoContent
           THEN /\ run' = [run EXCEPT !.i = @ + 1]
                /\ UNCHANGED <<disk, writes>>
           ELSE /\ disk' = DiskWith(run.cache_dir, "docs",
                               [p \in DOMAIN Dir.docs \cup {local_md_path_abs.path} |->
                                   IF p = local_md_path_abs.path THEN content_or_exc
                                   ELSE Dir.docs[p]])
                /\ writes' = Wrote("doc", local_md_path_abs.path)
                /\ run' = [run EXCEPT
                             !.i = @ + 1,
                             !.files_map =
                                 [p \in DOMAIN @ \cup {local_md_path_abs.path} |->
                                     IF p = local_md_path_abs.path THEN md_url_key
                                     ELSE @[p]]]
    /\ ipc' = IF run.i = Len(run.downloaded_contents) THEN "gen_index" ELSE "save_docs"
    /\ UNCHANGED <<op, remote, INDEXED_DOCS, state_file, fetches, summary_calls, runs, crashes,
                   hist, Others>>

\* the detailed index of the files that were saved, if there are any
GenerateIndex ==
    /\ ipc = "gen_index"
    /\ IF run.files_map # <<>>
       THEN generate_detailed_index(run.files_map)
       ELSE UNCHANGED <<disk, summary_calls, writes>>
    /\ ipc' = "write_marker"
    /\ UNCHANGED <<op, remote, INDEXED_DOCS, state_file, run, fetches, runs, crashes, hist, Others>>

\* .download_complete is written
WriteMarker ==
    /\ ipc = "write_marker"
    /\ disk' = DiskWith(run.cache_dir, "marker", TRUE)
    /\ writes' = Wrote("marker", Root)
    /\ ipc' = "save_hash"
    /\ UNCHANGED <<op, remote, INDEXED_DOCS, state_file, run, fetches, summary_calls, runs, crashes,
                   hist, Others>>

\* "Save the llms-full.txt hash for future cache validation"
SaveHash ==
    /\ ipc = "save_hash"
    /\ disk' = DiskWith(run.cache_dir, "hash", run.current_llms_full_hash)
    /\ writes' = Wrote("hash", Root)
    /\ ipc' = "register"
    /\ UNCHANGED <<op, remote, INDEXED_DOCS, state_file, run, fetches, summary_calls, runs, crashes,
                   hist, Others>>

\* index_documentation after setup_documentation_source has returned: the
\* source is registered and made active, and the state file is saved
Register ==
    /\ ipc = "register"
    /\ INDEXED_DOCS' = INDEXED_DOCS \cup {Source}
    /\ state_file' = INDEXED_DOCS'
    /\ ipc' = "idle"
    /\ hist' = [Ended("completed") EXCEPT
                  !.done = [any |-> TRUE,
                            manifest |-> run.main_index_content_str,
                            full |-> remote.full,
                            hashed |-> run.llms_full_content]]
    /\ run' = RunIdle
    /\ fetches' = 0 /\ summary_calls' = 0 /\ writes' = <<>>
    /\ UNCHANGED <<op, remote, disk, runs, crashes, Others>>

\* the site changes what it serves, between two runs
ChangeRemote ==
    /\ op = "manifest"
    /\ ipc = "idle"
    /\ runs - crashes < MaxRuns
    /\ \E r \in Remotes \ {remote} : remote' = r
    /\ UNCHANGED <<op, disk, INDEXED_DOCS, state_file, ipc, run, fetches, summary_calls,
                   writes, runs, crashes, hist, Others>>

(***************************************************************************)
(* scrape_and_index_documentation                                          *)
(***************************************************************************)

\* "Documentation source ... is already indexed. Skipping scraping."
ScrapeAlreadyIndexed ==
    /\ op = "scrape"
    /\ Begin
    /\ Source \in INDEXED_DOCS
    /\ hist' = Ended("skipped")
    /\ UNCHANGED <<op, remote, disk, INDEXED_DOCS, state_file, ipc, run, Others>>

\* scrape_documentation_site begins: the pages of the site are to be scraped
\* into a new temporary folder (the loop that finds them is the crawl above)
StartScrape ==
    /\ op = "scrape"
    /\ Begin
    /\ Source \notin INDEXED_DOCS
    /\ run' = [RunIdle EXCEPT !.pending = SitePages]
    /\ ipc' = "s_crawl"
    /\ hist' = [hist EXCEPT !.start = disk]
    /\ UNCHANGED <<op, remote, disk, INDEXED_DOCS, state_file, Others>>

\* a worker ends scrape_single_page_async for a page of the site: nothing, or
\* the page saved under the temporary folder.  After the last page, "No pages
\* were successfully scraped" ends the operation
CrawlPage(web_url) ==
    /\ ipc = "s_crawl"
    /\ web_url \in run.pending
    /\ fetches' = fetches + 1
    /\ \/ /\ run' = IF run.pending = {web_url} /\ run.temp_docs = <<>>
                    THEN RunIdle ELSE [run EXCEPT !.pending = @ \ {web_url}]
          /\ ipc' = IF run.pending # {web_url} THEN "s_crawl"
                    ELSE IF run.temp_docs = <<>> THEN "idle" ELSE "s_llms"
          /\ hist' = IF run.pending = {web_url} /\ run.temp_docs = <<>>
                     THEN Ended("failed") ELSE hist
          /\ UNCHANGED writes
       \/ LET saved_filepath == scrape_file_path(LinkUrl(web_url).path, TempFolder,
                                                 DOMAIN run.temp_docs)
          IN  /\ run' = [run EXCEPT !.pending = @ \ {web_url},
                                    !.temp_docs = @ @@ (saved_filepath :> web_url)]
              /\ writes' = Wrote("doc", saved_filepath)
              /\ ipc' = IF run.pending = {web_url} THEN "s_llms" ELSE "s_crawl"
              /\ UNCHANGED hist
    /\ UNCHANGED <<op, remote, disk, INDEXED_DOCS, state_file, summary_calls, runs, crashes, Others>>

\* llms.txt and llms-full.txt are made from the scraped files, in the
\* temporary folder; the directory of the cache is named
GenerateLlms ==
    /\ ipc = "s_llms"
    /\ run' = [run EXCEPT !.temp_llms = TRUE,
                          !.llms_full_content = DOMAIN run.temp_docs,
                          !.cache_dir = get_unique_cache_dir_name(disk)]
    /\ writes' = Wrote("llms", TempFolder)
    /\ ipc' = "s_move"
    /\ UNCHANGED <<op, remote, disk, INDEXED_DOCS, state_file, fetches, summary_calls, runs, crashes,
                   hist, Others>>

\* os.path.join(final_cache_dir, os.path.relpath(old_path, temp_output_folder))
Moved(old_path, final_cache_dir) ==
    final_cache_dir \o SubSeq(old_path, Len(TempFolder) + 1, Len(old_path))

\* shutil.rmtree of the final directory if it exists, then shutil.move of the
\* temporary folder to it
MoveToCache ==
    /\ ipc = "s_move"
    /\ IF Dir.exists
       THEN /\ disk' = [disk EXCEPT ![run.cache_dir] = NoDir]
            /\ writes' = Wrote("rmtree", Root)
            /\ ipc' = "s_move"
       ELSE /\ disk' = [disk EXCEPT ![run.cache_dir] =
                           [NoDir EXCEPT
                              !.exists = TRUE,
                              !.llms = run.temp_llms,
                              !.docs = [p \in {Moved(q, Root) : q \in DOMAIN run.temp_docs} |->
                                           run.temp_docs[CHOOSE q \in DOMAIN run.temp_docs :
                                                             Moved(q, Root) = p]]]]
            /\ writes' = Wrote("move", Root)
            /\ ipc' = "s_url_marker"
    /\ UNCHANGED <<op, remote, INDEXED_DOCS, state_file, run, fetches, summary_calls, runs, crashes,
                   hist, Others>>

\* create_url_marker_file, where scrape_and_index_documentation calls it
CreateUrlMarkerScraped ==
    /\ ipc = "s_url_marker"
    /\ disk' = DiskWith(run.cache_dir, "source_url", TRUE)
    /\ writes' = Wrote("source_url", Root)
    /\ ipc' = "s_hash"
    /\ UNCHANGED <<op, remote, INDEXED_DOCS, state_file, run, fetches, summary_calls, runs, crashes,
                   hist, Others>>

\* "Compute hash of llms-full.txt for cache validation"
SaveHashScraped ==
    /\ ipc = "s_hash"
    /\ disk' = DiskWith(run.cache_dir, "hash", compute_content_hash(run.llms_full_content))
    /\ writes' = Wrote("hash", Root)
    /\ ipc' = "s_index"
    /\ UNCHANGED <<op, remote, INDEXED_DOCS, state_file, run, fetches, summary_calls, runs, crashes,
                   hist, Others>>

\* the detailed index of the scraped files, at their new place
GenerateIndexScraped ==
    /\ ipc = "s_index"
    /\ generate_detailed_index(Dir.docs)
    /\ ipc' = "s_register"
    /\ UNCHANGED <<op, remote, INDEXED_DOCS, state_file, run, fetches, runs, crashes, hist, Others>>

\* the source is registered and made active
RegisterScraped ==
    /\ ipc = "s_register"
    /\ INDEXED_DOCS' = INDEXED_DOCS \cup {Source}
    /\ ipc' = "s_marker"
    /\ UNCHANGED <<op, remote, disk, state_file, run, fetches, summary_calls, writes, runs, crashes,
                   hist, Others>>

\* "Create completion marker"
WriteMarkerScraped ==
    /\ ipc = "s_marker"
    /\ disk' = DiskWith(run.cache_dir, "marker", TRUE)
    /\ writes' = Wrote("marker", Root)
    /\ ipc' = "s_state"
    /\ UNCHANGED <<op, remote, INDEXED_DOCS, state_file, run, fetches, summary_calls, runs, crashes,
                   hist, Others>>

\* save_indexed_docs_state, and the operation returns
SaveStateScraped ==
    /\ ipc = "s_state"
    /\ state_file' = INDEXED_DOCS
    /\ ipc' = "idle"
    /\ hist' = Ended("completed")
    /\ run' = RunIdle
    /\ fetches' = 0 /\ summary_calls' = 0 /\ writes' = <<>>
    /\ UNCHANGED <<op, remote, disk, INDEXED_DOCS, runs, crashes, Others>>

(***************************************************************************)
(* index_preformatted_markdown                                             *)
(***************************************************************************)

\* the source file cannot be downloaded or read
ReadSourceFails ==
    /\ op = "preformatted"
    /\ Begin
    /\ hist' = Ended("failed")
    /\ UNCHANGED <<op, remote, disk, INDEXED_DOCS, state_file, ipc, run, Others>>

\* the source file is read, and the cache directory is named and made
MakeCacheDirPreformatted ==
    /\ op = "preformatted"
    /\ BeginCounts
    /\ LET cache_dir == get_unique_cache_dir_name(disk)
       IN  /\ run' = [RunIdle EXCEPT !.cache_dir = cache_dir]
           /\ disk' = DiskWith(cache_dir, "exists", TRUE)
           /\ writes' = IF disk[cache_dir].exists THEN <<>>
                        ELSE <<[kind |-> "mkdir", path |-> CachePath(cache_dir)]>>
    /\ ipc' = "p_url_marker"
    /\ hist' = [hist EXCEPT !.start = disk]
    /\ UNCHANGED <<op, remote, INDEXED_DOCS, state_file, Others>>

\* create_url_marker_file, where index_preformatted_markdown calls it; the
\* source is then parsed into final_docs
CreateUrlMarkerPreformatted ==
    /\ ipc = "p_url_marker"
    /\ disk' = DiskWith(run.cache_dir, "source_url", TRUE)
    /\ writes' = Wrote("source_url", Root)
    /\ run' = [run EXCEPT !.i = 1]
    /\ ipc' = "p_docs"
    /\ UNCHANGED <<op, remote, INDEXED_DOCS, state_file, fetches, summary_calls, runs, crashes,
                   hist, Others>>

\* one pass of "for doc in final_docs": the document is written in the folder
\* of its category
WriteDocPreformatted ==
    /\ ipc = "p_docs"
    /\ LET doc == final_docs[run.i]
           category_path == pathjoin(Root, doc.category)
           file_path_abs == pathjoin(category_path, doc.filename)
       IN  /\ disk' = DiskWith(run.cache_dir, "docs",
                          [p \in DOMAIN Dir.docs \cup {file_path_abs} |->
                              IF p = file_path_abs THEN doc.filename ELSE Dir.docs[p]])
           /\ writes' = Wrote("doc", file_path_abs)
           /\ run' = [run EXCEPT
                        !.i = @ + 1,
                        !.files_map = [p \in DOMAIN @ \cup {file_path_abs} |->
                                          IF p = file_path_abs THEN "source" ELSE @[p]]]
    /\ ipc' = IF run.i = Len(final_docs) THEN "p_index" ELSE "p_docs"
    /\ UNCHANGED <<op, remote, INDEXED_DOCS, state_file, fetches, summary_calls, runs, crashes,
                   hist, Others>>

\* "Generate detailed index and update state", up to the index
GenerateIndexPreformatted ==
    /\ ipc = "p_index"
    /\ generate_detailed_index(run.files_map)
    /\ ipc' = "p_register"
    /\ UNCHANGED <<op, remote, INDEXED_DOCS, state_file, run, fetches, runs, crashes, hist, Others>>

\* the source is registered and made active, the state file is saved, and the
\* operation returns
RegisterPreformatted ==
    /\ ipc = "p_register"
    /\ INDEXED_DOCS' = INDEXED_DOCS \cup {Source}
    /\ state_file' = INDEXED_DOCS'
    /\ ipc' = "idle"
    /\ hist' = Ended("completed")
    /\ run' = RunIdle
    /\ fetches' = 0 /\ summary_calls' = 0 /\ writes' = <<>>
    /\ UNCHANGED <<op, remote, disk, runs, crashes, Others>>

(***************************************************************************)
(* The server stops in the middle of an operation and is started again      *)
(***************************************************************************)

Crash ==
    /\ ipc \notin {"idle", "off"}
    /\ crashes < MaxCrashes
    /\ ipc' = "idle"
    /\ run' = RunIdle
    /\ INDEXED_DOCS' = Restored(disk)
    /\ hist' = [Ended("crashed") EXCEPT
                  !.crash = [pc |-> ipc, decision |-> run.decision,
                             manifest |-> run.main_index_content_str,
                             full |-> remote.full]]
    /\ fetches' = 0 /\ summary_calls' = 0 /\ writes' = <<>>
    /\ crashes' = crashes + 1
    /\ UNCHANGED <<op, remote, disk, state_file, runs, Others>>

IngestNext ==
    \/ DownloadManifestFails \/ CheckCache \/ ReuseCache \/ RegenerateIndex
    \/ SaveRegeneratedHash \/ MakeCacheDir \/ CreateUrlMarker \/ SaveManifest
    \/ (\E web_url \in run.pending : ScrapeManifestPage(web_url))
    \/ DownloadDocs \/ SaveDoc \/ GenerateIndex \/ WriteMarker \/ SaveHash \/ Register
    \/ ChangeRemote
    \/ ScrapeAlreadyIndexed \/ StartScrape
    \/ (\E web_url \in run.pending : CrawlPage(web_url))
    \/ GenerateLlms \/ MoveToCache \/ CreateUrlMarkerScraped \/ SaveHashScraped
    \/ GenerateIndexScraped \/ RegisterScraped \/ WriteMarkerScraped \/ SaveStateScraped
    \/ ReadSourceFails \/ MakeCacheDirPreformatted \/ CreateUrlMarkerPreformatted
    \/ WriteDocPreformatted \/ GenerateIndexPreformatted \/ RegisterPreformatted
    \/ Crash

(***************************************************************************)
(* generate_detailed_index_async: the files of a map are read, summarized   *)
(* in batches, and listed in detailed_index.md.  A file is named by its     *)
(* number, written in decimal, so that the order of the names as strings    *)
(* is not the order of the numbers.                                         *)
(***************************************************************************)

\* the most files of one map
MaxDocs == 12

\* batch_size
BatchSize == 10

\* the characters of a file path, by code point
CodePoints == <<".", "/", "0", "1", "2", "3", "4", "5", "6", "7", "8", "9", "c", "d", "m">>
Ord(c) == CHOOSE k \in 1..Len(CodePoints) : CodePoints[k] = c

RECURSIVE StrLess(_, _)
\* a < b, for two strings
StrLess(a, b) ==
    IF b = <<>> THEN FALSE
    ELSE IF a = <<>> THEN TRUE
    ELSE IF Head(a) = Head(b) THEN StrLess(Tail(a), Tail(b))
    ELSE Ord(Head(a)) < Ord(Head(b))

\* str(k)
Decimal(k) == IF k < 10 THEN <<CodePoints[k + 3]>>
              ELSE <<CodePoints[(k \div 10) + 3], CodePoints[(k % 10) + 3]>>

\* the cache directory of the index, and the path of file k in it
cache_dir_path == CachePath("base")
DocPath(k) == pathjoin(cache_dir_path, Decimal(k) \o MdExt)
DocNumber(p) == CHOOSE k \in 1..(MaxDocs + 1) : DocPath(k) = p

\* os.path.relpath(path, start), for a path below start
relpath(path, start) == SubSeq(path, Len(start) + 2, Len(path))

\* the keys in numeric order of the files
sorted_ByNumber(keys) == [k \in 1..Cardinality(keys) |-> DocPath(k)]

RECURSIVE sorted(_)
\* sorted(keys): ascending, as strings
sorted(keys) ==
    IF keys = {} THEN <<>>
    ELSE <<CHOOSE p \in keys : \A q \in keys : ~StrLess(q, p)>>
         \o sorted({r \in keys : \E q \in keys : StrLess(q, r)})

\* what can be special about a file: the service fails on it (the failure is
\* caught in get_summary_for_file_content_async, or leaves it), it holds
\* white space only, it cannot be read
Oddities == {"error", "exception", "blank", "unreadable"}

\* a summary text about a file, and an exception raised for it
Text(kind, relative_path) == [is_text |-> TRUE, kind |-> kind, of |-> relative_path]
Raised(relative_path) == [is_text |-> FALSE, kind |-> "exception", of |-> relative_path]
EmptySummary == [is_text |-> TRUE, kind |-> "empty", of |-> <<>>]

NoIndexWritten == <<"none">>

\* os.getenv("OPENAI_API_KEY") is None: the service cannot be called
NoKey == "no key"

IndexIdle ==
    /\ files_to_index = <<>> /\ files = <<>> /\ service = <<>>
    /\ file_metadata = <<>> /\ summarization_tasks = <<>> /\ summary_results = <<>>
    /\ batch_start = 0 /\ calls_in_flight = 0 /\ cooldowns = 0
    /\ detailed_index_md = NoIndexWritten /\ gpc = "off"

\* a call of generate_detailed_index_async with a map of n files, of which
\* at most two are special, in a process that has OPENAI_API_KEY or has not
IndexInit ==
    /\ \E n \in 0..MaxDocs :
          \E a \in 0..n, ka, kb \in Oddities, has_key \in BOOLEAN :
          \E b \in a..n :
             LET kind(p) == IF DocNumber(p) = a THEN ka
                            ELSE IF DocNumber(p) = b THEN kb ELSE "plain"
                 keys == {DocPath(k) : k \in 1..n}
             IN  /\ files_to_index = [p \in keys |-> <<"url", DocNumber(p)>>]
                 /\ files = [p \in keys |->
                                IF kind(p) \in {"blank", "unreadable"} THEN kind(p) ELSE "text"]
                 /\ service = [p \in keys |->
                                  IF ~has_key THEN NoKey
                                  ELSE IF kind(p) \in {"error", "exception"} THEN kind(p)
                                  ELSE "summary"]
    /\ file_metadata = <<>> /\ summarization_tasks = <<>> /\ summary_results = <<>>
    /\ batch_start = 0 /\ calls_in_flight = 0 /\ cooldowns = 0
    /\ detailed_index_md = NoIndexWritten /\ gpc = "read"

\* the entry of file_data for a path: content is None for a file that cannot
\* be read
FileData(local_abs_path) ==
    [local_abs_path |-> local_abs_path,
     original_url |-> files_to_index[local_abs_path],
     relative_path |-> relpath(local_abs_path, cache_dir_path),
     content |-> IF files[local_abs_path] = "unreadable" THEN "None"
                 ELSE files[local_abs_path]]

\* the task made for an entry: "if content and content.strip()" it is a call
\* of get_summary_for_file_content_async, otherwise create_empty_summary
TaskFor(data) ==
    IF data.content = "text"
    THEN [call |-> "get_summary_for_file_content_async", of |-> data.local_abs_path,
          file_path_for_context |-> data.relative_path]
    ELSE [call |-> "create_empty_summary", of |-> data.local_abs_path,
          file_path_for_context |-> <<>>]

\* file_data, for the sorted paths
ReadAll(sorted_local_paths) ==
    [j \in 1..Len(sorted_local_paths) |-> FileData(sorted_local_paths[j])]

\* the paths are sorted, the files are read, and a task is made for each
PrepareTasks ==
    /\ gpc = "read"
    /\ file_metadata' = ReadAll(sorted(DOMAIN files_to_index))
    /\ summarization_tasks' = [j \in 1..Len(file_metadata') |-> TaskFor(file_metadata'[j])]
    /\ gpc' = IF DOMAIN files_to_index = {} THEN "build" ELSE "batch"
    /\ UNCHANGED <<files_to_index, files, service, summary_results, batch_start,
                   calls_in_flight, cooldowns, detailed_index_md, pmVars, crawlVars,
                   ingestVars, toolVars>>

\* get_summary_for_file_content_async: "Error: OPENAI_API_KEY not configured.
\* Summary generation skipped." without the key; otherwise the summary, or
\* the text of the error it caught; an exception raised outside its try
\* leaves it
get_summary_for_file_content_async(outcome, file_path_for_context) ==
    IF outcome = NoKey THEN Text("not configured", <<>>)
    ELSE IF outcome = "summary" THEN Text("summary", file_path_for_context)
    ELSE IF outcome = "error" THEN Text("error", file_path_for_context)
    ELSE Raised(file_path_for_context)

\* what asyncio.gather(..., return_exceptions=True) hands back for a task
Gathered(task) ==
    IF task.call = "create_empty_summary" THEN EmptySummary
    ELSE get_summary_for_file_content_async(service[task.of], task.file_path_for_context)

\* tasks[i:i + batch_size], for an i counted from 0, where the batch starts
\* one task early
Batch_Overlapping(tasks, i) ==
    SubSeq(tasks, IF i = 0 THEN 1 ELSE i,
           IF i + BatchSize < Len(tasks) THEN i + BatchSize ELSE Len(tasks))

\* tasks[i:i + batch_size], for an i counted from 0
Batch(tasks, i) ==
    SubSeq(tasks, i + 1, IF i + BatchSize < Len(tasks) THEN i + BatchSize ELSE Len(tasks))

\* the calls of the summarization service that the tasks of a batch make:
\* without the key get_summary_for_file_content_async returns before its call
ServiceCalls(batch) ==
    Cardinality({k \in 1..Len(batch) :
                    /\ batch[k].call = "get_summary_for_file_content_async"
                    /\ service[batch[k].of] # NoKey})

\* asyncio.gather(*batch) starts the coroutines of the batch: each of them
\* that is a call of get_summary_for_file_content_async calls the service
StartBatch ==
    /\ gpc = "batch"
    /\ calls_in_flight' = calls_in_flight + ServiceCalls(Batch(summarization_tasks, batch_start))
    /\ gpc' = "gather"
    /\ UNCHANGED <<files_to_index, files, service, file_metadata, summarization_tasks,
                   summary_results, batch_start, cooldowns, detailed_index_md, pmVars,
                   crawlVars, ingestVars, toolVars>>

\* one call of the service ends, with a summary or an error
ServiceCallEnds ==
    /\ gpc = "gather"
    /\ calls_in_flight > 0
    /\ calls_in_flight' = calls_in_flight - 1
    /\ UNCHANGED <<files_to_index, files, service, file_metadata, summarization_tasks,
                   summary_results, batch_start, cooldowns, detailed_index_md, gpc, pmVars,
                   crawlVars, ingestVars, toolVars>>

\* a delay follows every batch
NeedsDelay_Always(i, tasks) == TRUE

\* "if i + batch_size < len(summarization_tasks)"
NeedsDelay(i, tasks) == i + BatchSize < Len(tasks)

\* one pass of "for i in range(0, len(summarization_tasks), batch_size)" once
\* every task of the batch has ended: gather returns and the results are
\* added.  (gather hands an exception of a task back as its result, so the
\* except branch of the pass is not entered.)
GatherBatch ==
    /\ gpc = "gather"
    /\ calls_in_flight = 0
    /\ summary_results' =
           summary_results \o
           [k \in 1..Len(Batch(summarization_tasks, batch_start)) |->
               Gathered(Batch(summarization_tasks, batch_start)[k])]
    /\ gpc' = IF NeedsDelay(batch_start, summarization_tasks) THEN "sleep"
              ELSE IF batch_start + BatchSize < Len(summarization_tasks) THEN "batch"
              ELSE "build"
    /\ batch_start' = IF NeedsDelay(batch_start, summarization_tasks) THEN batch_start
                      ELSE batch_start + BatchSize
    /\ UNCHANGED <<files_to_index, files, service, file_metadata, summarization_tasks,
                   calls_in_flight, cooldowns, detailed_index_md, pmVars, crawlVars,
                   ingestVars, toolVars>>

\* "await asyncio.sleep(2)" ends and the loop goes to its next pass
Cooldown ==
    /\ gpc = "sleep"
    /\ cooldowns' = cooldowns + 1
    /\ batch_start' = batch_start + BatchSize
    /\ gpc' = IF batch_start + BatchSize < Len(summarization_tasks) THEN "batch" ELSE "build"
    /\ UNCHANGED <<files_to_index, files, service, file_metadata, summarization_tasks,
                   summary_results, calls_in_flight, detailed_index_md, pmVars, crawlVars,
                   ingestVars, toolVars>>

\* summary_text is set to the result as it is, whatever it is
SummaryText_Unchecked(summary_result, relative_path) == summary_result

\* summary_text for a result: the text of an error for an exception
SummaryText(summary_result, relative_path) ==
    IF ~summary_result.is_text THEN Text("error", relative_path) ELSE summary_result

\* the entry of the index for file i (counted from 1) of file_metadata
Entry(i) ==
    [relative_path |-> file_metadata[i].relative_path,
     original_url |-> file_metadata[i].original_url,
     summary_text |-> IF i <= Len(summary_results)
                      THEN SummaryText(summary_results[i], file_metadata[i].relative_path)
                      ELSE Text("missing", file_metadata[i].relative_path)]

\* the entries are built and detailed_index.md is written, or cannot be (the
\* function returns None).  summary_text + "\n\n---\n\n" raises for a
\* summary_text that is no string
BuildIndex ==
    /\ gpc = "build"
    /\ IF \E i \in 1..Len(file_metadata) : ~Entry(i).summary_text.is_text
       THEN gpc' = "raised" /\ UNCHANGED detailed_index_md
       ELSE \/ /\ detailed_index_md' = [i \in 1..Len(file_metadata) |-> Entry(i)]
               /\ gpc' = "returned"
            \/ /\ gpc' = "returned_none"
               /\ UNCHANGED detailed_index_md
    /\ UNCHANGED <<files_to_index, files, service, file_metadata, summarization_tasks,
                   summary_results, batch_start, calls_in_flight, cooldowns, pmVars,
                   crawlVars, ingestVars, toolVars>>

IndexNext ==
    PrepareTasks \/ StartBatch \/ ServiceCallEnds \/ GatherBatch \/ Cooldown \/ BuildIndex

(***************************************************************************)
(* Direct download: download_file, and the markdown files of llms.txt that  *)
(* setup_documentation_source downloads together                            *)
(***************************************************************************)

\* the answers of the site that are told apart: a text, a client error, a
\* server error, no answer
Responses == {"200", "404", "503", "network"}

\* the GETs of one url whose answers are laid down
MaxResponses == 3

\* the markdown links of llms.txt that have a local path
DownloadUrls == {"A", "B"}

DownloadIdle ==
    /\ dl_site = <<>> /\ dl_gets = <<>> /\ dl_contents = <<>> /\ dpc = "idle"

\* setup_documentation_source up to asyncio.gather(*download_tasks)
DownloadInit ==
    /\ dl_site \in [DownloadUrls -> [1..MaxResponses -> Responses]]
    /\ dl_gets = [u \in DownloadUrls |-> 0]
    /\ dl_contents = [u \in DownloadUrls |-> "pending"]
    /\ dpc = "gather"

\* download_file for a url the site answers with answers: one session.get;
\* raise_for_status raises on 4xx and 5xx, and every exception gives None
download_file(url, answers) ==
    [gets |-> 1,
     text |-> IF answers[1] = "200" THEN url ELSE NoContent]

\* one of the gathered downloads ends
Download(url) ==
    /\ dpc = "gather"
    /\ dl_contents[url] = "pending"
    /\ dl_gets' = [dl_gets EXCEPT ![url] = @ + download_file(url, dl_site[url]).gets]
    /\ dl_contents' = [dl_contents EXCEPT ![url] = download_file(url, dl_site[url]).text]
    /\ UNCHANGED <<dl_site, dpc, BesidesDownload>>

\* asyncio.gather returns when every download has ended
Gather ==
    /\ dpc = "gather"
    /\ \A url \in DownloadUrls : dl_contents[url] # "pending"
    /\ dpc' = "save"
    /\ UNCHANGED <<dl_site, dl_gets, dl_contents, BesidesDownload>>

DownloadNext == (\E url \in DownloadUrls : Download(url)) \/ Gather

(***************************************************************************)
(* Registry: INDEXED_DOCS and CURRENT_ACTIVE_DOC of the running server,     *)
(* .indexed_docs_state.json, and the cache directories under BASE_CACHE_DIR *)
(***************************************************************************)

\* the source identifiers the tools are called with
DocUrls == {"a", "b"}

\* extract_project_name_from_llmstxt / extract_project_name_from_url: the
\* sources are two sites of one project name
project_name(url) == "p"

\* the directory names get_unique_cache_dir_name can give: the project name,
\* or the project name with the hash of a url
CacheDirNames == {<<project_name(url), suffix>> : url \in DocUrls, suffix \in {""} \cup DocUrls}

\* CURRENT_ACTIVE_DOC = None
NoActive == "None"

\* what .source_url of a directory holds, or Missing where there is no
\* such directory
Missing == "missing"

\* INDEXED_DOCS = {}
EmptyDict == [url \in {} |-> <<>>]

Put_Alone(docs, url, dir) == [u \in {url} |-> dir]

\* INDEXED_DOCS[url] = {'cache_dir': dir, ...}
Put(docs, url, dir) ==
    [u \in DOMAIN docs \cup {url} |-> IF u = url THEN dir ELSE docs[u]]

Del_Keeps(docs, url) == docs

\* del INDEXED_DOCS[url]
Del(docs, url) == [u \in DOMAIN docs \ {url} |-> docs[u]]

\* no .indexed_docs_state.json
NoStateFile ==
    [exists |-> FALSE, indexed_docs |-> EmptyDict, current_active_doc |-> NoActive]

\* the file save_indexed_docs_state writes
save_indexed_docs_state(docs, active) ==
    [exists |-> TRUE, indexed_docs |-> docs, current_active_doc |-> active]

cache_dir_exists_Always(dir, dirs) == TRUE

\* os.path.exists(cache_dir)
cache_dir_exists(dir, dirs) == dirs[dir] # Missing

\* loaded_docs of load_indexed_docs_state: the entries of the file whose
\* cache directory is on disk
loaded_docs(file, dirs) ==
    [url \in {u \in DOMAIN file.indexed_docs :
                 cache_dir_exists(file.indexed_docs[u], dirs)}
        |-> file.indexed_docs[url]]

\* the active source load_indexed_docs_state restores
loaded_active(file, docs) ==
    IF file.current_active_doc # NoActive /\ file.current_active_doc \in DOMAIN docs
    THEN file.current_active_doc
    ELSE NoActive

\* get_unique_cache_dir_name: the project name if no such directory is
\* there or it is marked with this url, else the name with the url's hash
unique_cache_dir_name(project, url, dirs) ==
    IF dirs[<<project, "">>] = Missing THEN <<project, "">>
    ELSE IF dirs[<<project, "">>] = url THEN <<project, "">>
    ELSE <<project, url>>

\* the sources discover_existing_cache_directories adds: they have a marked
\* directory and no entry
Discoverable(docs, dirs) ==
    {url \in DocUrls \ DOMAIN docs : \E dir \in CacheDirNames : dirs[dir] = url}

deactivate_Never(url, active) == active

\* remove_documentation: "If it was the active doc, deactivate it"
deactivate(url, active) == IF active = url THEN NoActive ELSE active

\* remove_documentation returns its ERROR where the directory is there and
\* shutil.rmtree raises
rmtree_fails(dir, dirs, rmtree_ok) == dirs[dir] # Missing /\ ~rmtree_ok

\* the last event: the tool call that returned and what it returned, or
\* a step of the start of the server, or a change of the disk
Event(tool, url, kind) == [tool |-> tool, url |-> url, kind |-> kind]

\* DOCS_ROOT_PATH_ABS = None
NoCacheDir == <<>>

\* no query is being answered
NoQuery == [running |-> FALSE, index_of |-> NoActive, read_from |-> NoCacheDir]

RegistryIdle ==
    /\ indexed_docs = EmptyDict /\ current_active_doc = NoActive
    /\ state_data = NoStateFile
    /\ cache_dirs = [dir \in {} |-> Missing]
    /\ healed = {} /\ last = Event("none", NoActive, "ok") /\ rpc = "idle"
    /\ DOCS_ROOT_PATH_ABS = NoCacheDir /\ DETAILED_INDEX_CONTENT = NoActive
    /\ agent = NoQuery

\* a first start of the server: no state file, no cache directory
RegistryInit ==
    /\ indexed_docs = EmptyDict /\ current_active_doc = NoActive
    /\ state_data = NoStateFile
    /\ cache_dirs = [dir \in CacheDirNames |-> Missing]
    /\ healed = {} /\ last = Event("none", NoActive, "ok") /\ rpc = "load"
    /\ DOCS_ROOT_PATH_ABS = NoCacheDir /\ DETAILED_INDEX_CONTENT = NoActive
    /\ agent = NoQuery

\* main_async: load_indexed_docs_state()
Load ==
    /\ rpc = "load"
    /\ IF state_data.exists
       THEN /\ indexed_docs' = loaded_docs(state_data, cache_dirs)
            /\ current_active_doc' = loaded_active(state_data, indexed_docs')
       ELSE UNCHANGED <<indexed_docs, current_active_doc>>
    /\ healed' = DOMAIN state_data.indexed_docs \ DOMAIN indexed_docs'
    /\ last' = Event("load", NoActive, "ok")
    /\ rpc' = "discover"
    /\ UNCHANGED <<state_data, cache_dirs, legacyVars, agent, BesidesRegistry>>

\* main_async: discover_existing_cache_directories(). os.listdir gives the
\* directories in any order, so a source marked in two directories gets
\* either. CURRENT_ACTIVE_DOC is not declared global there: the assignment
\* of line 1071 makes the name local, the test of line 1070 raises
\* UnboundLocalError once a source was discovered, and the except of line
\* 1075 logs it. Nothing is saved.
Discover ==
    /\ rpc = "discover"
    /\ \E pick \in [Discoverable(indexed_docs, cache_dirs) -> CacheDirNames] :
        /\ \A url \in DOMAIN pick : cache_dirs[pick[url]] = url
        /\ indexed_docs' = [url \in DOMAIN indexed_docs \cup DOMAIN pick |->
                               IF url \in DOMAIN pick THEN pick[url]
                               ELSE indexed_docs[url]]
    /\ last' = Event("discover", NoActive, "ok")
    /\ rpc' = "initial"
    /\ UNCHANGED <<current_active_doc, state_data, cache_dirs, healed, legacyVars, agent,
                   BesidesRegistry>>

\* setup_documentation_source and the registration that index_documentation
\* and main_async make of its result. outcome: llms.txt cannot be fetched;
\* the cache directory is made and marked and a later step fails; success
SetupOutcomes == {"unreachable", "unsaved", "ok"}

\* what the caller gets: the success message, a message that starts with
\* "ERROR:", or the exception of a step that no try of the tool encloses
\* (index_preformatted_markdown: os.makedirs of line 2243, the writes of
\* lines 2305-2316)
reply_kind(tool, outcome) ==
    IF outcome = "ok" THEN "ok"
    ELSE IF outcome = "unsaved" /\ tool = "index_preformatted_markdown" THEN "exception"
    ELSE "ERROR"

SetupAndRegister(tool, url, outcome) ==
    LET dir == unique_cache_dir_name(project_name(url), url, cache_dirs)
    IN  /\ cache_dirs' = IF outcome = "unreachable" THEN cache_dirs
                         ELSE [cache_dirs EXCEPT ![dir] = url]
        /\ IF outcome = "ok"
           THEN /\ indexed_docs' = Put(indexed_docs, url, dir)
                /\ current_active_doc' = url
                /\ state_data' = save_indexed_docs_state(indexed_docs', current_active_doc')
           ELSE UNCHANGED <<indexed_docs, current_active_doc, state_data>>
        /\ healed' = healed
        /\ DOCS_ROOT_PATH_ABS' =
              IF outcome = "ok" /\ tool \in {"index_documentation", "main_async"}
              THEN dir ELSE DOCS_ROOT_PATH_ABS
        /\ DETAILED_INDEX_CONTENT' =
              IF outcome = "ok" /\ tool = "main_async" THEN url ELSE DETAILED_INDEX_CONTENT
        /\ last' = Event(tool, url, reply_kind(tool, outcome))

\* main_async without URL_TO_LLMSTXT
StartServing ==
    /\ rpc = "initial"
    /\ rpc' = "serve"
    /\ last' = Event("main_async", NoActive, "ok")
    /\ UNCHANGED <<indexed_docs, current_active_doc, state_data, cache_dirs, healed,
                   legacyVars, agent, BesidesRegistry>>

\* main_async with URL_TO_LLMSTXT = url
StartWithSource(url, outcome) ==
    /\ rpc = "initial"
    /\ rpc' = "serve"
    /\ IF url \in DOMAIN indexed_docs
       THEN /\ current_active_doc' = url
            /\ state_data' = save_indexed_docs_state(indexed_docs, url)
            /\ DOCS_ROOT_PATH_ABS' = indexed_docs[url]
            /\ DETAILED_INDEX_CONTENT' = url
            /\ last' = Event("main_async", url, "ok")
            /\ UNCHANGED <<indexed_docs, cache_dirs, healed>>
       ELSE SetupAndRegister("main_async", url, outcome)
    /\ UNCHANGED <<agent, BesidesRegistry>>

\* the tool index_documentation
index_documentation(url, outcome) ==
    /\ rpc = "serve"
    /\ SetupAndRegister("index_documentation", url, outcome)
    /\ UNCHANGED <<rpc, agent, BesidesRegistry>>

\* the tool scrape_and_index_documentation. scraped: the crawl gave pages.
\* The scraped folder is moved to the cache directory, in place of what
\* was there
scrape_and_index_documentation(url, scraped) ==
    /\ rpc = "serve"
    /\ IF url \in DOMAIN indexed_docs
       THEN /\ last' = Event("scrape_and_index_documentation", url, "already indexed")
            /\ UNCHANGED <<indexed_docs, current_active_doc, state_data, cache_dirs, healed,
                           legacyVars>>
       ELSE SetupAndRegister("scrape_and_index_documentation", url,
                             IF scraped THEN "ok" ELSE "unreachable")
    /\ UNCHANGED <<rpc, agent, BesidesRegistry>>

\* the tool index_preformatted_markdown(project_name, url=url). outcome: the
\* download gives nothing; the cache directory is made and marked and a
\* write raises; success
index_preformatted_markdown(url, outcome) ==
    /\ rpc = "serve"
    /\ SetupAndRegister("index_preformatted_markdown", url, outcome)
    /\ UNCHANGED <<rpc, agent, BesidesRegistry>>

set_active_saves_Nothing(docs, active, file) == file

\* set_active_documentation: "Save state for persistence"
set_active_saves(docs, active, file) == save_indexed_docs_state(docs, active)

\* the tool set_active_documentation
set_active_documentation(url) ==
    /\ rpc = "serve"
    /\ IF url \notin DOMAIN indexed_docs
       THEN /\ last' = Event("set_active_documentation", url, "ERROR")
            /\ UNCHANGED <<current_active_doc, state_data>>
       ELSE /\ current_active_doc' = url
            /\ state_data' = set_active_saves(indexed_docs, current_active_doc', state_data)
            /\ last' = Event("set_active_documentation", url, "ok")
    /\ UNCHANGED <<indexed_docs, cache_dirs, healed, rpc, legacyVars, agent, BesidesRegistry>>

\* the tool remove_documentation. rmtree_ok: shutil.rmtree can delete the
\* cache directory
remove_documentation(url, rmtree_ok) ==
    /\ rpc = "serve"
    /\ IF url \notin DOMAIN indexed_docs
       THEN /\ last' = Event("remove_documentation", url, "ERROR")
            /\ UNCHANGED <<indexed_docs, current_active_doc, state_data, cache_dirs>>
       ELSE IF rmtree_fails(indexed_docs[url], cache_dirs, rmtree_ok)
       THEN /\ last' = Event("remove_documentation", url, "ERROR")
            /\ UNCHANGED <<indexed_docs, current_active_doc, state_data, cache_dirs>>
       ELSE /\ cache_dirs' = [cache_dirs EXCEPT ![indexed_docs[url]] = Missing]
            /\ indexed_docs' = Del(indexed_docs, url)
            /\ current_active_doc' = deactivate(url, current_active_doc)
            /\ state_data' = save_indexed_docs_state(indexed_docs', current_active_doc')
            /\ last' = Event("remove_documentation", url, "ok")
    /\ UNCHANGED <<healed, rpc, legacyVars, agent, BesidesRegistry>>

\* somebody deletes a cache directory by hand
DeleteByHand(dir) ==
    /\ rpc \in {"load", "serve"}
    /\ cache_dirs[dir] # Missing
    /\ cache_dirs' = [cache_dirs EXCEPT ![dir] = Missing]
    /\ last' = Event("rm -r", NoActive, "ok")
    /\ UNCHANGED <<indexed_docs, current_active_doc, state_data, healed, rpc, legacyVars,
                   agent, BesidesRegistry>>

\* the server process ends and is started again: the module sets
\* INDEXED_DOCS = {} and CURRENT_ACTIVE_DOC = None (lines 54-55)
Restart ==
    /\ rpc = "serve"
    /\ rpc' = "load"
    /\ indexed_docs' = EmptyDict
    /\ current_active_doc' = NoActive
    /\ healed' = {}
    /\ DOCS_ROOT_PATH_ABS' = NoCacheDir
    /\ DETAILED_INDEX_CONTENT' = NoActive
    /\ agent' = NoQuery
    /\ last' = Event("exit", NoActive, "ok")
    /\ UNCHANGED <<state_data, cache_dirs, BesidesRegistry>>

\* the root read_files and ask_doc_agent take: the cache directory of the
\* active source, "otherwise fall back to legacy globals"
docs_root(active, docs, legacy_root) ==
    IF active # NoActive /\ active \in DOMAIN docs THEN docs[active] ELSE legacy_root

\* the detailed index ask_doc_agent gives the agent: the source it is of
index_given(active, docs, legacy_index) ==
    IF active # NoActive /\ active \in DOMAIN docs THEN active ELSE legacy_index

\* ask_doc_agent up to runner.run_async: the agent is made with the detailed
\* index of the source that is active now. key: the Gemini key is set
ask_doc_agent(key) ==
    /\ rpc = "serve"
    /\ ~agent.running
    /\ IF \/ docs_root(current_active_doc, indexed_docs, DOCS_ROOT_PATH_ABS) = NoCacheDir
          \/ index_given(current_active_doc, indexed_docs, DETAILED_INDEX_CONTENT) = NoActive
          \/ ~key
       THEN /\ last' = Event("ask_doc_agent", NoActive, "ERROR")
            /\ UNCHANGED agent
       ELSE /\ agent' = [running |-> TRUE,
                         index_of |-> index_given(current_active_doc, indexed_docs,
                                                  DETAILED_INDEX_CONTENT),
                         read_from |-> NoCacheDir]
            /\ last' = Event("ask_doc_agent", agent'.index_of, "running")
    /\ UNCHANGED <<indexed_docs, current_active_doc, state_data, cache_dirs, healed, rpc,
                   legacyVars, BesidesRegistry>>

\* the agent calls its tool read_files, which takes its root from the
\* globals as they are at the call (lines 886-891)
AgentReadsFiles ==
    /\ rpc = "serve"
    /\ agent.running
    /\ agent' = [agent EXCEPT !.read_from =
                     docs_root(current_active_doc, indexed_docs, DOCS_ROOT_PATH_ABS)]
    /\ last' = Event("read_files", current_active_doc,
                     IF agent'.read_from = NoCacheDir THEN "ERROR" ELSE "ok")
    /\ UNCHANGED <<indexed_docs, current_active_doc, state_data, cache_dirs, healed, rpc,
                   legacyVars, BesidesRegistry>>

\* runner.run_async ends and ask_doc_agent returns the answer
AgentAnswers ==
    /\ rpc = "serve"
    /\ agent.running
    /\ agent' = NoQuery
    /\ last' = Event("ask_doc_agent", agent.index_of, "ok")
    /\ UNCHANGED <<indexed_docs, current_active_doc, state_data, cache_dirs, healed, rpc,
                   legacyVars, BesidesRegistry>>

RegistryNext ==
    \/ Load
    \/ Discover
    \/ StartServing
    \/ \E url \in DocUrls, outcome \in SetupOutcomes : StartWithSource(url, outcome)
    \/ \E url \in DocUrls, outcome \in SetupOutcomes : index_documentation(url, outcome)
    \/ \E url \in DocUrls, scraped \in BOOLEAN : scrape_and_index_documentation(url, scraped)
    \/ \E url \in DocUrls, outcome \in SetupOutcomes : index_preformatted_markdown(url, outcome)
    \/ \E url \in DocUrls : set_active_documentation(url)
    \/ \E url \in DocUrls, rmtree_ok \in BOOLEAN : remove_documentation(url, rmtree_ok)
    \/ \E dir \in CacheDirNames : DeleteByHand(dir)
    \/ Restart

\* one run of the server, on a disk nobody else touches, with the queries
\* it answers while its other tools are called
QueryNext ==
    \/ Load
    \/ Discover
    \/ StartServing
    \/ \E url \in DocUrls, outcome \in SetupOutcomes : StartWithSource(url, outcome)
    \/ \E url \in DocUrls, outcome \in SetupOutcomes : index_documentation(url, outcome)
    \/ \E url \in DocUrls, scraped \in BOOLEAN : scrape_and_index_documentation(url, scraped)
    \/ \E url \in DocUrls : set_active_documentation(url)
    \/ \E url \in DocUrls, rmtree_ok \in BOOLEAN : remove_documentation(url, rmtree_ok)
    \/ \E key \in BOOLEAN : ask_doc_agent(key)
    \/ AgentReadsFiles
    \/ AgentAnswers

(***************************************************************************)
(* read_files: the tool the query agent reads the cached documents with    *)
(***************************************************************************)

\* the longest list of paths of one call
MaxPaths == 2

\* INDEXED_DOCS[CURRENT_ACTIVE_DOC]['cache_dir']
ActiveRoot == <<"/", "c", "/", "p">>

\* docs_root_path where no source is active and DOCS_ROOT_PATH_ABS is None
NoRoot == <<>>

\* what is on disk at a path: a text file, a file that cannot be decoded or
\* opened, a directory, nothing
OnDisk(full_path) ==
    IF full_path = ActiveRoot \o <<"/", "a">> THEN "file"
    ELSE IF full_path = ActiveRoot \o <<"/", "d", "/", "a">> THEN "file"
    ELSE IF full_path = ActiveRoot \o <<"/", "u">> THEN "unreadable"
    ELSE IF full_path \in {ActiveRoot, ActiveRoot \o <<"/", "d">>} THEN "directory"
    ELSE IF full_path = <<"/", "c", "/", "p", "q">> THEN "file"
    ELSE IF full_path = <<"/", "s">> THEN "file"
    ELSE "nothing"

\* the paths read_files is called with
ReadPaths ==
    {<<>>, <<"a">>, <<"d", "/", "a">>, <<".", "/", "a">>, <<"d">>, <<"u">>, <<"m">>,
     <<"/", "s">>, <<".", ".", "/", "p", "q">>, <<"d", "/", ".", ".", "/", "a">>,
     <<".", ".", "a">>}

\* one element of all_content
ReadEntry(kind, file_to_read, text) == [kind |-> kind, path |-> file_to_read, text |-> text]

has_dotdot_Never(file_to_read) == FALSE

\* ".." in file_to_read.split(os.sep)
has_dotdot(file_to_read) == InSeq(DOTDOT, Split(file_to_read, SL))

\* one turn of the loop of read_files for a non-empty path: the entry
\* appended to all_content
read_one(root, file_to_read) ==
    IF isabs(file_to_read) THEN ReadEntry("absolute", file_to_read, <<>>)
    ELSE IF has_dotdot(file_to_read) THEN ReadEntry("dotdot", file_to_read, <<>>)
    ELSE LET full_path == normpath(pathjoin(root, file_to_read))
         IN  IF ~StartsWith(full_path, root)
             THEN ReadEntry("restricted", file_to_read, <<>>)
             ELSE IF OnDisk(full_path) = "file"
             THEN ReadEntry("content", file_to_read, full_path)
             ELSE IF OnDisk(full_path) = "unreadable"
             THEN ReadEntry("read error", file_to_read, <<>>)
             ELSE ReadEntry("not found", file_to_read, <<>>)

ReadIdle ==
    /\ docs_root_path = NoRoot /\ files_to_read = <<>> /\ all_content = <<>>
    /\ read_index = 0 /\ read_pc = "idle"

\* a call of read_files
ReadInit ==
    /\ docs_root_path \in {ActiveRoot, NoRoot}
    /\ files_to_read \in UNION {[1..n -> ReadPaths] : n \in 1..MaxPaths}
    /\ all_content = <<>>
    /\ read_index = 0
    /\ read_pc = "check root"

\* "if not docs_root_path: return 'Error: Documentation root path is not
\* configured...'"
CheckRoot ==
    /\ read_pc = "check root"
    /\ read_pc' = IF docs_root_path = NoRoot THEN "no root" ELSE "loop"
    /\ UNCHANGED <<docs_root_path, files_to_read, all_content, read_index, BesidesRead>>

\* one turn of "for file_to_read in files_to_read"; an empty path is skipped
ReadFile ==
    /\ read_pc = "loop"
    /\ read_index < Len(files_to_read)
    /\ read_index' = read_index + 1
    /\ all_content' =
          IF files_to_read[read_index'] = <<>> THEN all_content
          ELSE Append(all_content, read_one(docs_root_path, files_to_read[read_index']))
    /\ UNCHANGED <<docs_root_path, files_to_read, read_pc, BesidesRead>>

\* return "\n\n".join(all_content)
ReturnContent ==
    /\ read_pc = "loop"
    /\ read_index = Len(files_to_read)
    /\ read_pc' = "returned"
    /\ UNCHANGED <<docs_root_path, files_to_read, all_content, read_index, BesidesRead>>

ReadNext == CheckRoot \/ ReadFile \/ ReturnContent

(***************************************************************************)
(* The pages of one crawl saved by the threads of the pool: each thread    *)
(* runs scrape_single_page_async for one url, looks for a file name that   *)
(* is free, and writes the page to it                                      *)
(***************************************************************************)

\* the urls the crawl submits, by name, and their paths: the file names of
\* "U1" and "U2" are the same once sanitized
SaveUrls == {"U1", "U2", "U3"}
SavePath(u) ==
    CASE u = "U1" -> <<"/", "d", "/", "a">>
      [] u = "U2" -> <<"/", "d", "/", "_", "a">>
      [] u = "U3" -> <<"/", "d", "/", "b">>

NoFile == <<>>
Scraper(pc, saved_filepath) == [pc |-> pc, saved_filepath |-> saved_filepath]

SaveIdle == save_workers = 0 /\ scrapers = <<>> /\ temp_files = <<>>

\* scrape_documentation_site has made temp_output_folder and its pool
SaveInit ==
    /\ save_workers \in 1..MaxWorkers
    /\ scrapers = [u \in SaveUrls |-> Scraper("queued", NoFile)]
    /\ temp_files = <<>>

\* the futures that are not done
Scraping == {u \in SaveUrls : scrapers[u].pc \in {"running", "named"}}

\* executor.submit(asyncio.run, scrape_single_page_async(...)), while fewer
\* than max_workers futures are pending
SubmitScrape(u) ==
    /\ scrapers[u].pc = "queued"
    /\ Cardinality(Scraping) < save_workers
    /\ scrapers' = [scrapers EXCEPT ![u] = Scraper("running", NoFile)]
    /\ UNCHANGED <<save_workers, temp_files, BesidesSave>>

\* the page cannot be had: the scrape returns without a file
ScrapeFails(u) ==
    /\ scrapers[u].pc = "running"
    /\ scrapers' = [scrapers EXCEPT ![u] = Scraper("failed", NoFile)]
    /\ UNCHANGED <<save_workers, temp_files, BesidesSave>>

\* the thread has the page: it makes the folder and goes through "while
\* os.path.exists(saved_filepath)" until a name is free
NameFile(u) ==
    /\ scrapers[u].pc = "running"
    /\ scrapers' = [scrapers EXCEPT ![u] =
                       Scraper("named", scrape_file_path(SavePath(u), TempFolder,
                                                         DOMAIN temp_files))]
    /\ UNCHANGED <<save_workers, temp_files, BesidesSave>>

\* "with open(saved_filepath, 'w', encoding='utf-8') as f": the file is made,
\* or written over
WriteFile(u) ==
    /\ scrapers[u].pc = "named"
    /\ temp_files' = [p \in DOMAIN temp_files \cup {scrapers[u].saved_filepath} |->
                         IF p = scrapers[u].saved_filepath THEN u ELSE temp_files[p]]
    /\ scrapers' = [scrapers EXCEPT ![u].pc = "saved"]
    /\ UNCHANGED <<save_workers, BesidesSave>>

SaveNext ==
    \E u \in SaveUrls : SubmitScrape(u) \/ ScrapeFails(u) \/ NameFile(u) \/ WriteFile(u)

(***************************************************************************)
(* Specifications                                                          *)
(***************************************************************************)

\* no tool of the server is running
ToolsIdle == DownloadIdle /\ RegistryIdle /\ ReadIdle /\ SaveIdle

InitPath == PathInit /\ CrawlIdle /\ IngestIdle /\ IndexIdle /\ ToolsIdle
InitCrawl == CrawlInit /\ PathIdle /\ IngestIdle /\ IndexIdle /\ ToolsIdle
InitCds == CdsInit /\ PathIdle /\ IngestIdle /\ IndexIdle /\ ToolsIdle
InitIngest == IngestInit /\ PathIdle /\ CrawlIdle /\ IndexIdle /\ ToolsIdle
InitIndex == IndexInit /\ PathIdle /\ CrawlIdle /\ IngestIdle /\ ToolsIdle

InitDownload ==
    /\ DownloadInit /\ PathIdle /\ CrawlIdle /\ IngestIdle /\ IndexIdle
    /\ RegistryIdle /\ ReadIdle /\ SaveIdle

InitRegistry ==
    /\ RegistryInit /\ PathIdle /\ CrawlIdle /\ IngestIdle /\ IndexIdle
    /\ DownloadIdle /\ ReadIdle /\ SaveIdle

InitRead ==
    /\ ReadInit /\ PathIdle /\ CrawlIdle /\ IngestIdle /\ IndexIdle
    /\ DownloadIdle /\ RegistryIdle /\ SaveIdle

InitSave ==
    /\ SaveInit /\ PathIdle /\ CrawlIdle /\ IngestIdle /\ IndexIdle
    /\ DownloadIdle /\ RegistryIdle /\ ReadIdle

\* calls of get_local_path_from_url
SpecPath == InitPath /\ [][MapPath]_vars

\* the crawl of scrape_documentation_site
SpecCrawl == InitCrawl /\ [][CrawlNext]_vars

\* the same crawl, where the coordinator keeps running and every submitted
\* scrape ends (the thread pool runs every task it was given)
SpecCrawlFair ==
    /\ SpecCrawl
    /\ WF_vars(Submit) /\ WF_vars(EndSubmit) /\ WF_vars(Collect)
    /\ WF_vars(\E n \in InFlight : WorkerDone(n))

\* the crawl of complete_docs_scraper.main
SpecCds == InitCds /\ [][CdsNext]_vars

\* calls of generate_detailed_index_async
SpecIndex == InitIndex /\ [][IndexNext]_vars

\* runs of one ingestion operation, one after the other, on a server that
\* can stop at any step
SpecIngest == InitIngest /\ [][IngestNext]_vars

\* index_documentation, run after run, on a cache whose _index.txt can be lost
InitRebuild == InitIngest /\ op = "manifest"
RebuildNext ==
    \/ DownloadManifestFails \/ CheckCache \/ ReuseCache \/ RegenerateIndex
    \/ SaveRegeneratedHash \/ LoseIndexTxt \/ RebuildUnreadableCache
    \/ MakeCacheDir \/ CreateUrlMarker \/ SaveManifest
    \/ (\E web_url \in run.pending : ScrapeManifestPage(web_url))
    \/ DownloadDocs \/ SaveDoc \/ GenerateIndex \/ WriteMarker \/ SaveHash \/ Register
    \/ ChangeRemote
SpecRebuild == InitRebuild /\ [][RebuildNext]_vars

\* the downloads of the markdown files of one llms.txt
SpecDownload == InitDownload /\ [][DownloadNext]_vars

\* a server that is started, called, and started again, on a disk where
\* cache directories can be deleted by hand
SpecRegistry == InitRegistry /\ [][RegistryNext]_vars

\* a server that answers queries while its registry is changed
SpecQuery == InitRegistry /\ [][QueryNext]_vars

\* calls of read_files
SpecRead == InitRead /\ [][ReadNext]_vars

\* the files of one crawl, saved by the threads of its pool
SpecSave == InitSave /\ [][SaveNext]_vars

(***************************************************************************)
(* Claims                                                                  *)
(***************************************************************************)

\* a URL without its query, its fragment and its trailing slashes: URLs that
\* differ only in these are one node of the link graph
Canon(u) == RStrip(StripQueryFragment(u), SL)

\* C1: in one run of the crawler, URLs that differ only in fragment, query
\* string or trailing slash are the same node, and for every node at most one
\* fetch is ever dispatched.
C1_OneFetchPerNode ==
    \A u, v \in DOMAIN submitted :
        Canon(u) = Canon(v) => (u = v /\ submitted[u] = 1)

\* C2: if every dispatched fetch eventually completes, the crawl loop of
\* scrape_documentation_site eventually terminates, and at termination the
\* to-visit queue is empty, no unit is in flight and the number of dispatched
\* units equals the size of the visited set.
C2_CrawlTerminates ==
    /\ <>(cpc = "done")
    /\ [](cpc = "done" =>
            /\ master_to_visit_urls_q = {}
            /\ InFlight = {}
            /\ urls_processed_count = Cardinality(master_visited_urls))

\* a crawl that ended after several units, one of them failed
C2_Witness ==
    /\ cpc = "done"
    /\ urls_processed_count >= 2
    /\ failed_scrapes >= 1 /\ successful_scrapes >= 1

\* p is root, or a path below root
IsUnder(root, p) ==
    /\ StartsWith(p, root)
    /\ (Len(p) = Len(root) \/ p[Len(root) + 1] = SL)

\* p has no empty, "." or ".." segment after its leading "/"
IsNormalized(p) ==
    LET segs == Split(p, SL)
    IN  \A i \in 2..Len(segs) : segs[i] \notin {<<>>, <<DOT>>, DOTDOT}

\* p has a ".." segment
HasParentSegment(p) == \E i \in 1..Len(Split(p, SL)) : Split(p, SL)[i] = DOTDOT

\* C3: get_local_path_from_url returns a normalized path that lies under the
\* cache root, or no path; it returns no path whenever the derived relative
\* path has a ".." segment or is absolute.
C3_PathUnderRootOrNone ==
    pm_out[1] = "ret" =>
        LET res == pm_out[2]
            rel == derive_relative_path(pm_in.main, pm_in.file)
        IN  /\ res.ok => (IsUnder(pm_in.root, res.path) /\ IsNormalized(res.path))
            /\ (HasParentSegment(rel) \/ Head(rel) = SL) => ~res.ok

\* a call for a URL of the main host whose path climbs out of the directory
\* of the main index, answered with no path
C3_Witness ==
    /\ pm_out = <<"ret", None>>
    /\ pm_in.file.abs /\ pm_in.file.netloc = MainHost
    /\ HasParentSegment(pm_in.file.path)

\* the kinds of the files written so far in the run, in order
Kinds == [k \in 1..Len(writes) |-> writes[k].kind]

\* C4: in every ingestion mode the path of each document file written was
\* obtained from get_local_path_from_url before the write, and no document
\* file is written outside the cache directory of the project.
C4_DocPathsFromPathMapper ==
    \A j \in 1..Len(writes) :
        writes[j].kind = "doc" =>
            /\ \E k \in 1..(j - 1) : writes[k] = [kind |-> "map", path |-> writes[j].path]
            /\ \E c \in Dirs : IsUnder(CachePath(c), writes[j].path)

\* setup_documentation_source has just looked at the cache, and has written
\* nothing yet
Classified == op = "manifest" /\ ipc \in {"cached", "download"}

\* C5: the cache decision of a manifest ingestion is exactly one of absent (no
\* cache directory or no completion marker), stale (marker, but the stored
\* hash is missing or differs from the newly computed hash) and fresh
\* (otherwise), and the ingestion takes the branch of its decision.
C5_CacheDecision ==
    Classified =>
        LET absent == ~Dir.exists \/ ~Dir.marker
            stale == /\ ~absent
                     /\ (Dir.hash = NoHash \/ Dir.hash # run.current_llms_full_hash)
            fresh == ~absent /\ ~stale
        IN  /\ run.decision \in {"absent", "stale", "fresh"}
            /\ (run.decision = "absent") = absent
            /\ (run.decision = "stale") = stale
            /\ (run.decision = "fresh") = fresh
            /\ (ipc = "download") = absent
            /\ run.hash_matches = fresh

\* a cache with a marker and no stored hash, found stale
C5_Witness ==
    /\ Classified /\ run.decision = "stale"
    /\ Dir.marker /\ Dir.hash = NoHash

\* C6: in every ingestion path the completion marker and the stored hash are
\* written only after all document files and the index artifact of the
\* ingestion: no document or index write follows the commit.
C6_CommitIsLastWrite ==
    \A j, k \in 1..Len(writes) :
        (j < k /\ writes[j].kind \in {"marker", "hash"}) =>
            writes[k].kind \notin {"doc", "index"}

\* the steps at which setup_documentation_source has documents left to save
DocsDue(pc) == pc \in {"download", "url_marker", "save_manifest", "scrape_pages",
                       "download_docs", "save_docs"}

\* the run follows a run that the server stopped in, and the site serves what
\* it served then
AfterCrash ==
    /\ op = "manifest" /\ ipc # "idle"
    /\ hist.last = "crashed"
    /\ hist.crash.manifest = run.main_index_content_str
    /\ hist.crash.full = remote.full

\* the interrupted run had a commit ahead of it: it was downloading, or it was
\* to write the index of a cache it had found stale or without an index.  (A
\* stop changes no file, so the index that is missing now was missing then.)
CommitAhead ==
    /\ hist.crash.pc # "register"
    /\ \/ hist.crash.decision \in {"absent", "stale"}
       \/ hist.crash.pc = "regen_hash"
       \/ ~Dir.detailed.present

SecondRun ==
    /\ op = "manifest" /\ ipc # "idle"
    /\ hist.last = "completed"
    /\ hist.done.manifest = run.main_index_content_str
    /\ hist.done.hashed = run.llms_full_content

NextIngestionEnds == op = "manifest" /\ ipc = "register" /\ hist.last = "completed"

\* the run wrote detailed_index.md
IndexRebuilt == \E k \in 1..Len(writes) : writes[k].kind = "index"

RegeneratedWhenFresh ==
    /\ op = "manifest" /\ run.decision = "fresh"
    /\ ~hist.start[run.cache_dir].detailed.present
    /\ ipc \in {"regen_hash", "register"}

NumDocs == Cardinality(DOMAIN files_to_index)
PathAt(i) == file_metadata[i].local_abs_path

\* r is the result for the file of data: the fixed text for a file without
\* text, otherwise what the service did for that file
ResultIsFor(r, data) ==
    IF files[data.local_abs_path] # "text" THEN r = EmptySummary
    ELSE IF service[data.local_abs_path] = NoKey THEN r = Text("not configured", <<>>)
    ELSE r.kind = service[data.local_abs_path] /\ r.of = data.relative_path

\* C12: summary_results has one entry for every file of the map once the
\* batches are done (and one for every file of the batches done so far), and
\* entry i is the result for file i, whatever the files hold, whatever the
\* service does for them, and however many batches there are.
C12_OneResultPerDocument ==
    /\ gpc \notin {"off", "read"} =>
          Len(file_metadata) = NumDocs /\ Len(summarization_tasks) = NumDocs
    /\ gpc = "batch" => Len(summary_results) = batch_start /\ batch_start < NumDocs
    /\ gpc \in {"build", "returned", "returned_none", "raised"} =>
          Len(summary_results) = NumDocs
    /\ Len(summary_results) <= Len(file_metadata)
    /\ \A i \in 1..Len(summary_results) :
          i <= Len(file_metadata) => ResultIsFor(summary_results[i], file_metadata[i])

\* two batches are done, with a file the service raised for and a file
\* without text among them
C12_Witness ==
    /\ gpc = "build" /\ NumDocs > BatchSize
    /\ \E p \in DOMAIN files_to_index : service[p] = "exception"
    /\ \E p \in DOMAIN files_to_index : files[p] # "text"

\* C13: the failure of the service for a file gives that file's entry the
\* text of an error and nothing else: no exception leaves
\* generate_detailed_index_async, every file with text for which the service
\* works has its summary, in the batch of the failure and in the later ones,
\* and detailed_index.md is written with all entries (unless the file itself
\* cannot be written).
C13_ServiceFailureIsContained ==
    /\ gpc # "raised"
    /\ gpc = "returned" =>
          /\ Len(detailed_index_md) = NumDocs
          /\ \A i \in 1..Len(detailed_index_md) :
                files[PathAt(i)] = "text" /\ service[PathAt(i)] # NoKey =>
                    detailed_index_md[i].summary_text =
                        Text(IF service[PathAt(i)] = "summary" THEN "summary" ELSE "error",
                             file_metadata[i].relative_path)

\* the index is written after the service failed for a file of the first
\* batch, with a summarized file after it in that batch and one in the
\* second batch
C13_Witness ==
    /\ gpc = "returned" /\ NumDocs > BatchSize
    /\ \E i \in 1..(BatchSize - 1) :
          /\ files[PathAt(i)] = "text" /\ service[PathAt(i)] # "summary"
          /\ \E j \in (i + 1)..BatchSize :
                detailed_index_md[j].summary_text.kind = "summary"
    /\ detailed_index_md[BatchSize + 1].summary_text.kind = "summary"

\* C14: detailed_index.md, as written, has one entry for every file of the
\* map, each with the url the map gives for it, and the entries are in
\* ascending order of the local paths, compared as strings; the files the
\* service failed for and the files that could not be read have their entry.
C14_IndexListsEveryDocumentSorted ==
    gpc = "returned" =>
        /\ Len(detailed_index_md) = NumDocs
        /\ {pathjoin(cache_dir_path, detailed_index_md[i].relative_path) :
               i \in 1..Len(detailed_index_md)} = DOMAIN files_to_index
        /\ \A i \in 1..Len(detailed_index_md) :
              detailed_index_md[i].original_url =
                  files_to_index[pathjoin(cache_dir_path, detailed_index_md[i].relative_path)]
        /\ \A i, j \in 1..Len(detailed_index_md) :
              i < j => StrLess(pathjoin(cache_dir_path, detailed_index_md[i].relative_path),
                               pathjoin(cache_dir_path, detailed_index_md[j].relative_path))

\* an index of ten files or more (so that "10.md" comes before "2.md"), one
\* that could not be read and one the service raised for
C14_Witness ==
    /\ gpc = "returned" /\ NumDocs >= 10
    /\ \E p \in DOMAIN files_to_index : files[p] = "unreadable"
    /\ \E p \in DOMAIN files_to_index : service[p] = "exception"
    /\ detailed_index_md[2].relative_path = Decimal(10) \o MdExt

\* the urls whose scrape was submitted: those in flight and those completed
Dispatched == DOMAIN submitted

\* C15: during a crawl the visited set only grows, a url enters it in the
\* very step that submits its scrape, and so every url in flight or completed
\* is in the visited set at every state
C15_VisitedGrowsWithDispatch ==
    /\ [](InFlight \cup all_scraped_results \cup Dispatched \subseteq master_visited_urls)
    /\ [][/\ master_visited_urls \subseteq master_visited_urls'
          /\ InFlight' \ InFlight = master_visited_urls' \ master_visited_urls]_vars

\* two urls are in flight after a first one was completed
C15_Witness ==
    /\ cpc \in {"submit", "collect"}
    /\ max_urls = 0
    /\ Cardinality(InFlight) = 2
    /\ all_scraped_results # {}
    /\ Cardinality(master_visited_urls) = 3

\* C16: at every state of a crawl, no url of the to-visit queue is in the
\* visited set
C16_QueueHoldsNoVisitedUrl == master_to_visit_urls_q \cap master_visited_urls = {}

\* after a first result was collected, urls wait in the queue while a page
\* that links to a visited url has been scraped and is about to be collected
C16_Witness ==
    /\ cpc = "collect"
    /\ max_urls = 0
    /\ all_scraped_results # {}
    /\ master_to_visit_urls_q # {}
    /\ \E n \in DoneFutures :
          /\ future_to_url_map[n].ok
          /\ \E link \in future_to_url_map[n].links :
                normalize_url(link) \in master_visited_urls

\* url is within the scope the crawl was given: it starts with the scope
\* string, or it is the scope string without its trailing slash, or the scope
\* is the default (start_url) and url starts with start_url
InScope(url) ==
    \/ StartsWith(url, subdomain_to_keep)
    \/ Append(url, SL) = subdomain_to_keep
    \/ subdomain_to_keep = Append(start_url, SL) /\ StartsWith(url, start_url)

\* C17: a link is checked against the scope prefix before it is enqueued, so
\* every url other than the seed that is queued or dispatched starts with the
\* configured scope string
C17_OnlyInScopeUrlsEnqueued ==
    \A url \in master_to_visit_urls_q \cup Dispatched :
        url \in {start_url, normalize_url(start_url)} \/ InScope(url)

\* C18: with a cap max_urls, a run never submits more than max_urls scrapes;
\* once the cap is reached no further scrape is submitted; and the crawl does
\* not end before every scrape in flight has completed and its result was
\* counted
C18_CapStopsDispatchNotInFlight ==
    /\ [](/\ urls_processed_count <= max_urls
          /\ Cardinality(Dispatched) = urls_processed_count
          /\ \A n \in Dispatched : submitted[n] = 1
          /\ cpc = "done" =>
                /\ InFlight = {}
                /\ successful_scrapes + failed_scrapes = urls_processed_count
                /\ Cardinality(all_scraped_results) = successful_scrapes)
    /\ [][urls_processed_count >= max_urls =>
             /\ InFlight' \subseteq InFlight
             /\ submitted' = submitted]_vars

\* the crawl has ended at its cap with urls left in the queue, and every
\* scrape it submitted was counted, a failed one among them
C18_Witness ==
    /\ cpc = "done"
    /\ max_urls = MaxUrls
    /\ urls_processed_count = max_urls
    /\ master_to_visit_urls_q # {}
    /\ InFlight = {}
    /\ successful_scrapes + failed_scrapes = max_urls
    /\ failed_scrapes > 0

\* C19: at every state of a crawl at most max_workers scrapes are in flight,
\* and max_workers, as the ingest operation passed it on, is within 1..50
C19_InFlightWithinPool ==
    cpc # "idle" => /\ Cardinality(InFlight) <= max_workers
                    /\ max_workers \in 1..MaxPool

\* the pool is full and a url waits in the queue for room
C19_Witness ==
    /\ cpc = "submit"
    /\ max_urls = 0
    /\ max_workers < MaxWorkers
    /\ Cardinality(InFlight) = max_workers
    /\ master_to_visit_urls_q # {}
    /\ all_scraped_results # {}
    /\ \A n \in InFlight : future_to_url_map[n].running

\* the attempts a call of scrape_single_page_async has begun: those that
\* failed and, unless the last of them made it return, the one under way
Attempts(call) == call.failed_attempts + (IF call.running THEN 1 ELSE 0)

\* a scrape in flight has returned None after its last attempt failed
SomeGaveUp == \E n \in InFlight : future_to_url_map[n].exhausted

\* C20: a scrape is attempted at most 3 times, one attempt and up to 2
\* retries, each retry after an attempt that failed; a scrape whose attempts
\* all failed is counted as failed and is no result, the loop goes back to
\* submitting, and the crawl goes on until no url is left
C20_ThreeAttemptsThenFailed ==
    /\ [](\A n \in InFlight :
            LET call == future_to_url_map[n]
            IN  /\ Attempts(call) <= max_retries + 1
                /\ call.retry_count <= max_retries
                /\ call.running => call.failed_attempts <= call.retry_count
                /\ call.exhausted => ~call.ok /\ ~call.running)
    /\ [][\A n \in InFlight \ InFlight' :
             future_to_url_map[n].exhausted =>
                 /\ failed_scrapes' > failed_scrapes
                 /\ n \notin all_scraped_results'
                 /\ master_to_visit_urls_q \subseteq master_to_visit_urls_q'
                 /\ cpc' = "submit"]_vars
    /\ SomeGaveUp ~> (/\ cpc = "done" /\ failed_scrapes > 0
                      /\ master_to_visit_urls_q = {} /\ InFlight = {})

\* a scrape has given up after three failed attempts while another page was
\* scraped and work remains: a url in the queue or a scrape under way
C20_Witness ==
    /\ cpc = "collect"
    /\ max_urls = 0
    /\ \E n \in InFlight : /\ future_to_url_map[n].exhausted
                           /\ future_to_url_map[n].failed_attempts = max_retries + 1
    /\ all_scraped_results # {}
    /\ master_to_visit_urls_q \cup {n \in InFlight : future_to_url_map[n].running} # {}

\* a failure that may pass: a server error, no answer
Retryable(answer) == answer \in {"503", "network"}

\* C21: a download that fails with a network error or a 5xx status is tried
\* again, up to 2 more times, and one that fails with a 4xx status is not
C21_TransientDownloadFailureRetried ==
    \A url \in DOMAIN dl_contents :
        dl_contents[url] # "pending" =>
            /\ dl_gets[url] <= max_retries + 1
            /\ Retryable(dl_site[url][1]) => dl_gets[url] > 1
            /\ dl_site[url][1] = "404" => dl_gets[url] = 1

\* the scraped page was one to leave out: the title of an error page, or too
\* little content
Excluded(call) == call.page \in {"error_title", "short"}

\* C22: a page that loaded but has the title of an error page, or less content
\* than the least length, is not saved and returned, and never enters the
\* results that the corpus and the index are made from
C22_ExcludedPageNotInCorpus ==
    /\ [](\A n \in InFlight :
            Excluded(future_to_url_map[n]) =>
                /\ ~future_to_url_map[n].ok
                /\ future_to_url_map[n].links = {}
                /\ n \notin all_scraped_results)
    /\ [][\A n \in InFlight :
             Excluded(future_to_url_map[n]) => n \notin all_scraped_results']_vars

\* the scrape of a page with too little content has ended, and that of a page
\* with the title of an error page, after another page was kept
C22_Witness ==
    /\ cpc = "collect"
    /\ max_urls = 0
    /\ all_scraped_results # {}
    /\ \E n \in DoneFutures : future_to_url_map[n].page = "short"
    /\ \E n \in DoneFutures : future_to_url_map[n].page = "error_title"

\* C23: a page left out as an empty result is not a failure: collecting it
\* does not raise the failed count that the ingestion reports
C23_EmptyResultNotCountedFailed ==
    [][failed_scrapes' - failed_scrapes =
          Cardinality({n \in InFlight \ InFlight' :
                          /\ ~future_to_url_map[n].ok
                          /\ ~Excluded(future_to_url_map[n])})]_vars

\* the batches that ended before the one that batch_start points at
BatchesBefore == batch_start \div BatchSize

\* C24: the summaries are asked for in consecutive batches of at most 10
\* documents: at most 10 calls of the service are in flight, a batch starts
\* only when every call of the one before has ended and its results are in,
\* and one delay lies between two consecutive batches, none after the last
C24_BatchesOfTenWithCooldown ==
    /\ [](/\ calls_in_flight <= BatchSize
          /\ gpc \in {"batch", "sleep"} => calls_in_flight = 0
          /\ gpc = "batch" => Len(summary_results) = batch_start
          /\ gpc = "sleep" => Len(summary_results) = batch_start + BatchSize
          /\ gpc \in {"batch", "gather", "sleep"} => cooldowns = BatchesBefore
          /\ gpc \in {"build", "returned", "returned_none", "raised"} =>
                /\ calls_in_flight = 0
                /\ cooldowns = IF summarization_tasks = <<>> THEN 0 ELSE BatchesBefore - 1)
    /\ [][/\ calls_in_flight' > calls_in_flight =>
                /\ calls_in_flight = 0
                /\ batch_start > 0 => cooldowns = BatchesBefore
          /\ cooldowns' # cooldowns =>
                /\ cooldowns' = cooldowns + 1
                /\ batch_start' < Len(summarization_tasks)]_vars

\* the index of more documents than one batch holds was written: a full batch
\* of calls, one delay, and the rest
C24_Witness ==
    /\ gpc = "returned"
    /\ Len(summary_results) > BatchSize
    /\ cooldowns = 1
    /\ \A p \in DOMAIN files : files[p] = "text"

\* C25: after any sequence of ingest, setActive, remove and load operations
\* at most one source is active: the active identifier is one value, None or
\* the key of an entry that is in the registry; and the state file, once
\* written, names as active None or one of the entries it lists
C25_ActiveIsNoneOrRegistered ==
    /\ current_active_doc \in {NoActive} \cup DOMAIN indexed_docs
    /\ state_data.current_active_doc \in {NoActive} \cup DOMAIN state_data.indexed_docs

\* the active source was removed while another one stays registered
C25_Witness ==
    /\ last = Event("remove_documentation", "a", "ok")
    /\ current_active_doc = NoActive
    /\ "b" \in DOMAIN indexed_docs

\* the registry of the running server differs after the step
RegistryChanges ==
    indexed_docs' # indexed_docs \/ current_active_doc' # current_active_doc

\* C26: after every operation of the running server that changes the
\* registry (an ingestion, remove, setActive, the discovery of cache
\* directories at startup) the state file holds the entries and the active
\* identifier of the registry in memory
C26_EveryMutationPersisted ==
    [][(rpc # "load" /\ rpc' # "load" /\ RegistryChanges)
          => state_data' = save_indexed_docs_state(indexed_docs', current_active_doc')]_vars

\* the step is a call of one of the ingestion tools for url that has returned
IngestionOf(url) ==
    /\ last'.tool \in {"index_documentation", "scrape_and_index_documentation", "main_async"}
    /\ last'.url = url

\* C27: load drops every entry of the state file whose cache directory is
\* not on disk and keeps every other entry as it is, no source is active if
\* the active one of the file was dropped; and the later ingestion of a
\* source that load dropped runs as a first ingestion does: it is not
\* answered "already indexed", and where it succeeds the source is
\* registered with a cache directory that is on disk and marked with it, is
\* active, and is in the state file
C27_LoadDropsStaleEntries ==
    /\ [][(rpc = "load" /\ rpc' = "discover" /\ state_data.exists) =>
            /\ DOMAIN indexed_docs' \subseteq DOMAIN state_data.indexed_docs
            /\ \A url \in DOMAIN state_data.indexed_docs :
                  IF cache_dirs[state_data.indexed_docs[url]] = Missing
                  THEN url \notin DOMAIN indexed_docs'
                  ELSE /\ url \in DOMAIN indexed_docs'
                       /\ indexed_docs'[url] = state_data.indexed_docs[url]
            /\ current_active_doc' =
                  IF state_data.current_active_doc \in DOMAIN indexed_docs'
                  THEN state_data.current_active_doc ELSE NoActive
            /\ healed' = {url \in DOMAIN state_data.indexed_docs :
                             cache_dirs[state_data.indexed_docs[url]] = Missing}]_vars
    /\ [][\A url \in healed :
            (url \notin DOMAIN indexed_docs /\ IngestionOf(url) /\ last' # last) =>
                /\ last'.kind \in {"ok", "ERROR"}
                /\ last'.kind = "ok" =>
                      /\ url \in DOMAIN indexed_docs'
                      /\ cache_dirs'[indexed_docs'[url]] = url
                      /\ indexed_docs'[url] =
                            unique_cache_dir_name(project_name(url), url, cache_dirs)
                      /\ current_active_doc' = url
                      /\ state_data' =
                            save_indexed_docs_state(indexed_docs', current_active_doc')
                /\ last'.kind = "ERROR" =>
                      UNCHANGED <<indexed_docs, current_active_doc, state_data>>]_vars

\* load dropped one source and kept the other, and the dropped one was
\* ingested again
C27_Witness ==
    /\ healed = {"a"}
    /\ last = Event("scrape_and_index_documentation", "a", "ok")
    /\ "b" \in DOMAIN indexed_docs

\* the step is a call of remove_documentation(url) that has returned kind
Removed(url, kind) == last' = Event("remove_documentation", url, kind) /\ last' # last

\* C28: remove of a registered source deletes its cache directory and its
\* entry, clears the active identifier if that source was active, and saves
\* the result; where the cache directory cannot be deleted it returns an
\* ERROR and leaves the entry, the active identifier, the state file and the
\* directory as they were
C28_RemoveDeletesOrLeavesAll ==
    [][\A url \in DOMAIN indexed_docs :
        /\ Removed(url, "ok") =>
              /\ cache_dirs' = [cache_dirs EXCEPT ![indexed_docs[url]] = Missing]
              /\ indexed_docs' = [u \in DOMAIN indexed_docs \ {url} |-> indexed_docs[u]]
              /\ current_active_doc' =
                    IF current_active_doc = url THEN NoActive ELSE current_active_doc
              /\ state_data' = save_indexed_docs_state(indexed_docs', current_active_doc')
        /\ Removed(url, "ERROR") =>
              /\ cache_dirs[indexed_docs[url]] # Missing
              /\ UNCHANGED <<indexed_docs, current_active_doc, state_data, cache_dirs>>]_vars

\* the cache directory of the active source could not be deleted
C28_Witness ==
    /\ last = Event("remove_documentation", "a", "ERROR")
    /\ current_active_doc = "a"
    /\ "a" \in DOMAIN indexed_docs
    /\ cache_dirs[indexed_docs["a"]] # Missing

\* the step is a call of tool(url) that has returned
Called(tool, url) == last'.tool = tool /\ last'.url = url /\ last' # last

\* setActive or remove with an identifier that is not in the registry
\* returns an ERROR and changes nothing
UnknownChangesNothing(url) ==
    (/\ url \notin DOMAIN indexed_docs
     /\ Called("set_active_documentation", url) \/ Called("remove_documentation", url))
        => /\ last'.kind = "ERROR"
           /\ UNCHANGED <<indexed_docs, current_active_doc, state_data, cache_dirs>>

\* the statement as the spec has it: setActive with a registered identifier
\* changes only the active identifier, in memory and in the state file
C29_SetActiveChangesOnlyActive ==
    [][\A url \in DocUrls :
        /\ UnknownChangesNothing(url)
        /\ (url \in DOMAIN indexed_docs /\ Called("set_active_documentation", url)) =>
              /\ last'.kind = "ok"
              /\ current_active_doc' = url
              /\ state_data'.current_active_doc = url
              /\ state_data'.indexed_docs = state_data.indexed_docs
              /\ UNCHANGED <<indexed_docs, cache_dirs>>]_vars

\* C29: setActive or remove with an identifier that is not in the registry
\* returns an ERROR and changes nothing (entries, active identifier, state
\* file, cache directories); setActive with a registered identifier leaves
\* the entries in memory and the cache directories as they are, makes the
\* identifier active, and writes the registry in memory to the state file,
\* whose entries change where the file differed from the registry
C29_SetActiveSavesRegistry ==
    [][\A url \in DocUrls :
        /\ UnknownChangesNothing(url)
        /\ (url \in DOMAIN indexed_docs /\ Called("set_active_documentation", url)) =>
              /\ last'.kind = "ok"
              /\ current_active_doc' = url
              /\ state_data' = [exists |-> TRUE, indexed_docs |-> indexed_docs,
                                current_active_doc |-> url]
              /\ UNCHANGED <<indexed_docs, cache_dirs>>]_vars

\* setActive was called for a source the start of the server restored while
\* the state file still lists one that load dropped
C29_Witness ==
    /\ last = Event("set_active_documentation", "b", "ok")
    /\ healed = {"a"}
    /\ "a" \notin DOMAIN state_data.indexed_docs
    /\ current_active_doc = "b"

\* the paths of the call the loop has been through that are not empty, in
\* the order of the call
PathsRead == SelectSeq(SubSeq(files_to_read, 1, read_index), LAMBDA p : p # <<>>)

\* the path as the claim has it: relative, with no ".." segment, resolving
\* to a place under the root
Allowed(root, p) ==
    /\ Head(p) # SL
    /\ ~HasParentSegment(p)
    /\ IsUnder(root, normpath(root \o <<SL>> \o p))

\* C30: of every path passed to read_files the content is returned only if
\* the path is relative, has no ".." segment and resolves under the root
\* directory, and then it is the content of the file the path resolves to;
\* a rejected, missing or unreadable path gives an error entry for that
\* path, whatever the other paths of the call are, and the entries stand in
\* the order of the paths (an empty string is no path and gives no entry)
C30_ReadOnlyUnderRoot ==
    read_pc \in {"loop", "returned"} =>
        /\ Len(all_content) = Len(PathsRead)
        /\ \A k \in 1..Len(all_content) :
            LET entry == all_content[k]
                p == PathsRead[k]
                target == normpath(docs_root_path \o <<SL>> \o p)
            IN  /\ entry.path = p
                /\ entry.kind = "content" <=>
                      (Allowed(docs_root_path, p) /\ OnDisk(target) = "file")
                /\ entry.kind = "content" => entry.text = target
                /\ entry.kind # "content" => entry.text = <<>>
                /\ (Head(p) = SL) => entry.kind = "absolute"
                /\ (Allowed(docs_root_path, p) /\ OnDisk(target) \in {"nothing", "directory"})
                      => entry.kind = "not found"
                /\ (Allowed(docs_root_path, p) /\ OnDisk(target) = "unreadable")
                      => entry.kind = "read error"

\* a call whose first path climbs out of the root to a file that is there,
\* and whose second path was read
C30_Witness ==
    /\ read_pc = "returned"
    /\ files_to_read = <<<<".", ".", "/", "p", "q">>, <<"a">>>>
    /\ all_content[1].kind = "dotdot"
    /\ all_content[2].kind = "content"

\* C40: at startup, where cache directories are discovered whose source is
\* not in the loaded registry and no source is active, every discovered
\* source is added to the registry and one of them, the first discovered,
\* becomes the active source
C40_FirstDiscoveredBecomesActive ==
    [][(rpc = "discover" /\ rpc' = "initial"
        /\ Discoverable(indexed_docs, cache_dirs) # {}
        /\ current_active_doc = NoActive) =>
            /\ \A url \in Discoverable(indexed_docs, cache_dirs) :
                  /\ url \in DOMAIN indexed_docs'
                  /\ cache_dirs[indexed_docs'[url]] = url
            /\ current_active_doc' \in DOMAIN indexed_docs'
            /\ current_active_doc' # NoActive]_vars

\* C31: read_files reads files only from the cache directory of the source
\* that is active at the time of the call: after a call that found a
\* directory to read from, a source was active at the call and the
\* directory is its cache directory; with no active source nothing is read
C31_ReadsOnlyFromActiveSource ==
    (/\ last.tool = "read_files"
     /\ agent.read_from # NoCacheDir
     /\ cache_dirs[agent.read_from] # Missing)
        => /\ last.url # NoActive
           /\ last.url \in DOMAIN indexed_docs
           /\ agent.read_from = indexed_docs[last.url]

\* C39: while a query is being answered, every file read_files reads comes
\* from the source whose detailed index the agent was given at the start of
\* the query, whatever setActive, remove or ingestion ran since the start
C39_QueryReadsItsOwnSource ==
    (/\ agent.running
     /\ last.tool = "read_files"
     /\ agent.read_from # NoCacheDir
     /\ cache_dirs[agent.read_from] # Missing)
        => /\ agent.index_of \in DOMAIN indexed_docs
           /\ agent.read_from = indexed_docs[agent.index_of]

\* the tools that ingest a source
IngestTools ==
    {"index_documentation", "scrape_and_index_documentation", "index_preformatted_markdown"}

\* C32: an ingestion that returns its success message has put the entry of
\* its own source identifier into the registry, with a cache directory that
\* is on disk and marked with the source, has made the source active, has
\* written the registry to the state file, and has left every other entry
\* as it was; set_active_documentation with that identifier then succeeds
C32_IngestRegistersOwnSource ==
    [][\A url \in DocUrls :
        (last'.tool \in IngestTools /\ last'.url = url /\ last'.kind = "ok" /\ last' # last) =>
            /\ url \in DOMAIN indexed_docs'
            /\ cache_dirs'[indexed_docs'[url]] = url
            /\ DOMAIN indexed_docs' = DOMAIN indexed_docs \cup {url}
            /\ \A other \in DOMAIN indexed_docs \ {url} :
                  indexed_docs'[other] = indexed_docs[other]
            /\ current_active_doc' = url
            /\ state_data' = [exists |-> TRUE, indexed_docs |-> indexed_docs',
                              current_active_doc |-> url]
            /\ rpc' = "serve"]_vars

\* a second source was ingested while the first stays registered
C32_Witness ==
    /\ last = Event("index_preformatted_markdown", "b", "ok")
    /\ DOMAIN indexed_docs = {"a", "b"}
    /\ current_active_doc = "b"
    /\ state_data.current_active_doc = "b"

\* C33: every exposed operation answers its caller with a success description
\* or with a message that begins with "ERROR:"; no failure inside an
\* operation leaves it as an exception
C33_NoOperationRaises ==
    last.kind # "exception"

\* C34: when the credential of the summarization service is missing, the
\* ingestion fails up front: no detailed index is written for documents that
\* were downloaded, and generate_detailed_index_async does not return its path
C34_NoCredentialNoIndex ==
    (\E p \in DOMAIN service : service[p] = NoKey) => gpc # "returned"

PassFinished ==
    \/ state_file # {}
    \/ hist.crash.pc \in {"save_hash", "register", "s_state"}

\* C36: whenever no ingestion is running, a cache directory that names its
\* source has the completion marker if and only if an ingestion pass of that
\* source (by manifest, by scraping or from a pre-formatted document) has
\* finished
C36_MarkerIffPassFinished ==
    ipc = "idle" =>
        \A c \in Dirs :
            disk[c].exists /\ disk[c].source_url => (disk[c].marker <=> PassFinished)

\* the run is a direct download of the markdown files of llms.txt
DirectDownload ==
    /\ op = "manifest"
    /\ run.main_index_content_str # NoContent
    /\ detect_llms_txt_url_type(run.main_index_content_str) = "markdown_files"

\* C37: in a direct download every document file saved by the run holds the
\* content downloaded from the url recorded as its origin, and once the
\* contents are saved every link that has a local path and whose download
\* gave a content has its file, also when another link of llms.txt has no
\* local path
C37_SavedFileHoldsItsOwnDownload ==
    DirectDownload =>
        /\ \A p \in DOMAIN run.files_map :
              disk[run.cache_dir].docs[p] = run.files_map[p]
        /\ ipc \in {"gen_index", "write_marker", "save_hash", "register"} =>
              \A k \in 1..Len(run.download_tasks) :
                  run.downloaded_contents[k] # NoContent =>
                      get_local_path_from_url(url_to_llmstxt, LinkUrl(run.download_tasks[k]),
                                              CachePath(run.cache_dir)).path
                          \in DOMAIN run.files_map

\* C38: in a crawl no two pages that were scraped are saved to the same file:
\* the files of two saved pages differ and each file holds the page it was
\* written for, whatever the order in which the threads of the pool look for
\* a free name and write
C38_NoTwoPagesInOneFile ==
    \A u \in DOMAIN scrapers :
        scrapers[u].pc = "saved" =>
            /\ temp_files[scrapers[u].saved_filepath] = u
            /\ \A v \in DOMAIN scrapers \ {u} :
                  scrapers[v].pc = "saved" =>
                      scrapers[v].saved_filepath # scrapers[u].saved_filepath

====
